---- MODULE Spec2Model ----
(***************************************************************************)
(* kz80_action: an Action! cross-compiler for the Z80.                     *)
(*                                                                         *)
(* The model has three layers, all translated from the Rust sources:       *)
(*   - generate_runtime (runtime.rs): the hand-assembled runtime blob;     *)
(*   - CodeGenerator (codegen.rs) and the driver main (main.rs), as        *)
(*     operators over the AST;                                             *)
(*   - the Z80 that executes the emitted bytes (the target the opcodes of  *)
(*     codegen.rs::opcodes and runtime.rs are written for), as Exec.       *)
(* The state machine compiles a source program (action Compile), loads     *)
(* the binary at its origin and executes it (Boot, Step), or calls one     *)
(* runtime routine directly with chosen register inputs (Invoke, Step).    *)
(***************************************************************************)
EXTENDS Integers, Sequences, FiniteSets, TLC

VARIABLES src, phase, binary, syms, m

vars == <<src, phase, binary, syms, m>>

(***************************************************************************)
(* Bytes and words.                                                        *)
(***************************************************************************)
Byte == 0..255

\* (w & 0xFF) as u8
Lo(w) == w % 256

\* (w >> 8) as u8
Hi(w) == (w \div 256) % 256

\* u16 arithmetic as a release build computes it (wrapping)
W16(x) == x % 65536

\* (x as i8) as u8 : the low eight bits of a signed difference
I8AsU8(x) == x % 256

\* a relative displacement byte read as a signed value
Signed8(b) == IF b >= 128 THEN b - 256 ELSE b

\* code[offset] = lo; code[offset + 1] = hi, offset counted from 0
PatchAt(code, offset, value) ==
  [i \in DOMAIN code |->
     IF i = offset + 1 THEN Lo(value)
     ELSE IF i = offset + 2 THEN Hi(value)
     ELSE code[i]]

(***************************************************************************)
(* runtime.rs: the runtime library.  Each routine is the byte sequence     *)
(* pushed by generate_runtime, in source order.                            *)
(***************************************************************************)
CONSOLE_DATA == 0
CONSOLE_STATUS == 1

\* PrintB, runtime.rs:20-74, with the two CALL div8 operands still 00 00
\* a faulty PrintB: the divisor of the tens digit is written 0x10
RtPrintB_Divisor16 ==
  << \hF5, \h06, 100, \hCD, \h00, \h00, \hB7, \h28, \h06, \hC6, \h30,
     \hD3, CONSOLE_DATA, \h3E, \h01, \h79,
     \h06, \h10,              \* LD B,16
     \hCD, \h00, \h00, \hC6, \h30, \hD3, CONSOLE_DATA, \h79, \hC6, \h30,
     \hD3, CONSOLE_DATA, \hF1, \hC9 >>

RtPrintB ==
  << \hF5,                     \* PUSH AF
     \h06, 100,                \* LD B,100
     \hCD, \h00, \h00,         \* CALL div8 (placeholder)
     \hB7,                     \* OR A
     \h28, \h06,               \* JR Z,skip_hundreds
     \hC6, \h30,               \* ADD A,'0'
     \hD3, CONSOLE_DATA,       \* OUT (CONSOLE_DATA),A
     \h3E, \h01,               \* LD A,1
     \h79,                     \* LD A,C
     \h06, 10,                 \* LD B,10
     \hCD, \h00, \h00,         \* CALL div8 (placeholder)
     \hC6, \h30,               \* ADD A,'0'
     \hD3, CONSOLE_DATA,       \* OUT (CONSOLE_DATA),A
     \h79,                     \* LD A,C
     \hC6, \h30,               \* ADD A,'0'
     \hD3, CONSOLE_DATA,       \* OUT (CONSOLE_DATA),A
     \hF1,                     \* POP AF
     \hC9 >>                   \* RET

\* code.len() when the operand of the first CALL div8 is pushed
div8_call1 == 4

\* code.len() when the operand of the second CALL div8 is pushed
div8_call2 == 19

\* PrintC, runtime.rs:80-108
RtPrintC(print_b) ==
  << \hE5, \hD5, \hC5,         \* PUSH HL ; PUSH DE ; PUSH BC
     \h7D,                     \* LD A,L
     \hCD, Lo(print_b), Hi(print_b),
     \hC1, \hD1, \hE1,         \* POP BC ; POP DE ; POP HL
     \hC9 >>

\* PrintE, runtime.rs:113-123
RtPrintE ==
  << \h3E, \h0D, \hD3, CONSOLE_DATA,
     \h3E, \h0A, \hD3, CONSOLE_DATA,
     \hC9 >>

\* Print, runtime.rs:129-141
RtPrint ==
  << \h7E,                     \* print_loop: LD A,(HL)
     \hB7,                     \* OR A
     \hC8,                     \* RET Z
     \hD3, CONSOLE_DATA,       \* OUT (CONSOLE_DATA),A
     \h23,                     \* INC HL
     \h18, \hF7 >>             \* JR print_loop

\* a faulty GetD: the ready test looks at bit 1 of the status
RtGetD_Bit1 ==
  << \hDB, CONSOLE_STATUS,
     \hE6, \h02,              \* AND 0x02
     \h28, \hFA, \hDB, CONSOLE_DATA, \hC9 >>

\* GetD, runtime.rs:147-157
RtGetD ==
  << \hDB, CONSOLE_STATUS,     \* IN A,(CONSOLE_STATUS)
     \hE6, \h01,               \* AND 1
     \h28, \hFA,               \* JR Z,GetD
     \hDB, CONSOLE_DATA,       \* IN A,(CONSOLE_DATA)
     \hC9 >>

\* PutD, runtime.rs:163-167
RtPutD == << \hD3, CONSOLE_DATA, \hC9 >>

\* Multiply, runtime.rs:174-205.  mult_loop and addr are taken relative to
\* the routine's first byte; only their difference enters the offset.
RtMultiply ==
  LET head == << \hC5,                 \* PUSH BC
                 \h44,                 \* LD B,H
                 \h4D,                 \* LD C,L
                 \h21, \h00, \h00,     \* LD HL,0
                 \h06, 16 >>           \* LD B,16
      mult_loop == Len(head)
      loop == << \h29,                 \* ADD HL,HL
                 \hCB, \h23,           \* SLA E
                 \hCB, \h12,           \* RL D
                 \h30, \h01,           \* JR NC,skip_add
                 \h09 >>               \* ADD HL,BC
      addr == mult_loop + Len(loop)    \* addr when DJNZ is pushed
      offset == I8AsU8(mult_loop - addr - 1)
  IN  head \o loop \o << \h10, offset, \* DJNZ mult_loop
                         \hC1,         \* POP BC
                         \hC9 >>       \* RET

\* a faulty div8: the loop subtracts C instead of B
RtDiv8_SubC ==
  << \h4F, \h16, \h00, \h79, \hB8, \h38, \h05,
     \h91,                    \* SUB C
     \h4F, \h14, \h18, \hF8, \h7A, \hC9 >>

\* div8, runtime.rs:223-249
RtDiv8 ==
  LET head == << \h4F,                 \* LD C,A
                 \h16, \h00 >>         \* LD D,0
      div8_loop == Len(head)
      loop == << \h79,                 \* LD A,C
                 \hB8,                 \* CP B
                 \h38, \h05,           \* JR C,div8_done
                 \h90,                 \* SUB B
                 \h4F,                 \* LD C,A
                 \h14 >>               \* INC D
      addr == div8_loop + Len(loop)    \* addr when JR is pushed
      offset2 == I8AsU8(div8_loop - addr - 1)
  IN  head \o loop \o << \h18, offset2, \* JR div8_loop
                         \h7A,          \* LD A,D
                         \hC9 >>        \* RET

\* generate_runtime(base_address): (code, symbols).  addr advances with every
\* push, so each symbol is base_address plus the length pushed so far; ovf
\* records that a u16 `addr += n` passed 0xFFFF (a panic with overflow checks
\* on, a wrap without).
generate_runtime(base_address) ==
  LET print_b == base_address
      c1 == RtPrintB
      print_c == print_b + Len(c1)
      c2 == c1 \o RtPrintC(W16(print_b))
      print_e == base_address + Len(c2)
      c3 == c2 \o RtPrintE
      print == base_address + Len(c3)
      c4 == c3 \o RtPrint
      get_d == base_address + Len(c4)
      c5 == c4 \o RtGetD
      put_d == base_address + Len(c5)
      c6 == c5 \o RtPutD
      multiply == base_address + Len(c6)
      c7 == c6 \o RtMultiply
      div8 == base_address + Len(c7)
      div8_addr == W16(div8)
      c8 == PatchAt(PatchAt(c7, div8_call1, div8_addr), div8_call2, div8_addr)
      c9 == c8 \o RtDiv8
      end_address == base_address + Len(c9)
  IN  [ code |-> c9,
        symbols |-> [ print_b |-> W16(print_b), print_c |-> W16(print_c),
                      print_e |-> W16(print_e), print |-> W16(print),
                      get_d |-> W16(get_d), put_d |-> W16(put_d),
                      multiply |-> W16(multiply), div8 |-> W16(div8),
                      end_address |-> W16(end_address) ],
        ovf |-> end_address > 65535 ]

(***************************************************************************)
(* The Z80 executing the image.  m is the machine: r the 8-bit registers   *)
(* by their encoding (0 B, 1 C, 2 D, 3 E, 4 H, 5 L, 7 A), z and c the zero *)
(* and carry flags (the only flags the emitted code tests), sp, pc, ram    *)
(* the bytes written or preloaded outside the image, out the bytes written *)
(* to the console-data port, ins the port reads made as <<port, byte>>,    *)
(* st the status.                                                          *)
(* The instructions are those named in codegen.rs::opcodes and in the      *)
(* comments of runtime.rs.                                                 *)
(***************************************************************************)
RegB == 0
RegC == 1
RegD == 2
RegE == 3
RegH == 4
RegL == 5
RegM == 6
RegA == 7

Regs == {RegB, RegC, RegD, RegE, RegH, RegL, RegA}

\* the image occupies [org, org + Len(bin))
InImage(org, bin, a) == a >= org /\ a < org + Len(bin)

\* a memory read: written RAM first, then the loaded image, else 0
Read(mm, org, bin, a) ==
  IF a \in DOMAIN mm.ram THEN mm.ram[a]
  ELSE IF InImage(org, bin, a) THEN bin[a - org + 1]
  ELSE 0

\* ram with byte v at address a
Poke(ram, a, v) ==
  [x \in (DOMAIN ram) \cup {a} |-> IF x = a THEN v ELSE ram[x]]

Pair(mm, hi, lo) == mm.r[hi] * 256 + mm.r[lo]

HL(mm) == Pair(mm, RegH, RegL)

\* the F register as pushed by PUSH AF: Z is bit 6, C is bit 0
FlagsByte(mm) == (IF mm.z THEN 64 ELSE 0) + (IF mm.c THEN 1 ELSE 0)

\* the value of 8-bit operand i (6 is (HL))
GetR(mm, org, bin, i) ==
  IF i = RegM THEN Read(mm, org, bin, HL(mm)) ELSE mm.r[i]

\* write 8-bit operand i
SetR(mm, i, v) ==
  IF i = RegM THEN [mm EXCEPT !.ram = Poke(mm.ram, HL(mm), v)]
  ELSE [mm EXCEPT !.r[i] = v]

\* the register pair dd of LD dd,nn / ADD HL,ss / INC ss (0 BC, 1 DE, 2 HL, 3 SP)
GetPair(mm, p) ==
  CASE p = 0 -> Pair(mm, RegB, RegC)
    [] p = 1 -> Pair(mm, RegD, RegE)
    [] p = 2 -> HL(mm)
    [] OTHER -> mm.sp

SetPair(mm, p, v) ==
  CASE p = 0 -> [mm EXCEPT !.r[RegB] = Hi(v), !.r[RegC] = Lo(v)]
    [] p = 1 -> [mm EXCEPT !.r[RegD] = Hi(v), !.r[RegE] = Lo(v)]
    [] p = 2 -> [mm EXCEPT !.r[RegH] = Hi(v), !.r[RegL] = Lo(v)]
    [] OTHER -> [mm EXCEPT !.sp = W16(v)]

\* bitwise operations on bytes, bit by bit
RECURSIVE BitOp(_, _, _, _)
BitOp(op, x, y, n) ==
  IF n = 0 THEN 0
  ELSE LET bx == x % 2
           by == y % 2
           b == CASE op = "and" -> IF bx = 1 /\ by = 1 THEN 1 ELSE 0
                  [] op = "or" -> IF bx = 1 \/ by = 1 THEN 1 ELSE 0
                  [] OTHER -> IF bx # by THEN 1 ELSE 0
       IN  b + 2 * BitOp(op, x \div 2, y \div 2, n - 1)

\* the eight accumulator operations ADD ADC SUB SBC AND XOR OR CP on operand v
Alu(mm, kind, v) ==
  LET a == mm.r[RegA]
      cin == IF mm.c THEN 1 ELSE 0
      res == CASE kind = 0 -> a + v
               [] kind = 1 -> a + v + cin
               [] kind = 2 -> a - v
               [] kind = 3 -> a - v - cin
               [] kind = 4 -> BitOp("and", a, v, 8)
               [] kind = 5 -> BitOp("xor", a, v, 8)
               [] kind = 6 -> BitOp("or", a, v, 8)
               [] OTHER -> a - v
      byte == res % 256
      carry == res > 255 \/ res < 0
  IN  [mm EXCEPT !.r[RegA] = IF kind = 7 THEN a ELSE byte,
                 !.z = (byte = 0),
                 !.c = carry]

Push16(mm, v) ==
  LET sp1 == W16(mm.sp - 1)
      sp2 == W16(mm.sp - 2)
  IN  [mm EXCEPT !.ram = Poke(Poke(mm.ram, sp1, Hi(v)), sp2, Lo(v)),
                 !.sp = sp2]

Top16(mm, org, bin) ==
  Read(mm, org, bin, mm.sp) + 256 * Read(mm, org, bin, W16(mm.sp + 1))

\* whether condition cc (0 NZ, 1 Z, 2 NC, 3 C) holds
Cond(mm, cc) ==
  CASE cc = 0 -> ~mm.z
    [] cc = 1 -> mm.z
    [] cc = 2 -> ~mm.c
    [] OTHER -> mm.c

\* the CB-prefixed shifts and rotates used: RL r (kind 2), SLA r (kind 4),
\* SRL r (kind 7)
ExecCB(mm, org, bin, op2) ==
  LET kind == op2 \div 8
      i == op2 % 8
      v == GetR(mm, org, bin, i)
      cin == IF mm.c THEN 1 ELSE 0
      res == CASE kind = 2 -> (2 * v + cin) % 256
               [] kind = 4 -> (2 * v) % 256
               [] OTHER -> v \div 2
      cout == IF kind = 7 THEN v % 2 = 1 ELSE v >= 128
      m1 == SetR(mm, i, res)
  IN  IF kind \in {2, 4, 7}
      THEN [m1 EXCEPT !.z = (res = 0), !.c = cout, !.pc = W16(mm.pc + 2)]
      ELSE [mm EXCEPT !.st = "illegal"]

\* one instruction.  inp is the byte an IN reads; ret is the address whose
\* reaching means the routine called by Invoke has returned (-1: none);
\* maxout bounds the console log and maxin the log of port reads.
Exec(mm, org, bin, ret, inp, maxout, maxin) ==
  LET pc == mm.pc
      op == Read(mm, org, bin, pc)
      n1 == Read(mm, org, bin, W16(pc + 1))
      n2 == Read(mm, org, bin, W16(pc + 2))
      nn == n1 + 256 * n2
      next1 == W16(pc + 1)
      next2 == W16(pc + 2)
      next3 == W16(pc + 3)
      rel == W16(pc + 2 + Signed8(n1))
  IN
  IF pc = ret THEN [mm EXCEPT !.st = "returned"]
  ELSE IF ~InImage(org, bin, pc) THEN [mm EXCEPT !.st = "wild"]
  ELSE
  CASE op = \h00 -> [mm EXCEPT !.pc = next1]
    [] op = \h76 -> [mm EXCEPT !.st = "halt"]
    \* LD r,r'
    [] op >= \h40 /\ op <= \h7F /\ op # \h76 ->
         [SetR(mm, (op - \h40) \div 8, GetR(mm, org, bin, op % 8))
            EXCEPT !.pc = next1]
    \* ADD/ADC/SUB/SBC/AND/XOR/OR/CP r
    [] op >= \h80 /\ op <= \hBF ->
         [Alu(mm, (op - \h80) \div 8, GetR(mm, org, bin, op % 8))
            EXCEPT !.pc = next1]
    \* ADD/ADC/SUB/SBC/AND/XOR/OR/CP n
    [] op >= \hC6 /\ op % 8 = 6 ->
         [Alu(mm, (op - \hC6) \div 8, n1) EXCEPT !.pc = next2]
    \* LD r,n
    [] op < \h40 /\ op % 8 = 6 ->
         [SetR(mm, op \div 8, n1) EXCEPT !.pc = next2]
    \* INC r / DEC r: Z from the result, C unchanged
    [] op < \h40 /\ op % 8 = 4 ->
         LET v == (GetR(mm, org, bin, op \div 8) + 1) % 256
         IN  [SetR(mm, op \div 8, v) EXCEPT !.z = (v = 0), !.pc = next1]
    [] op < \h40 /\ op % 8 = 5 ->
         LET v == (GetR(mm, org, bin, op \div 8) - 1) % 256
         IN  [SetR(mm, op \div 8, v) EXCEPT !.z = (v = 0), !.pc = next1]
    \* LD dd,nn
    [] op \in {\h01, \h11, \h21, \h31} ->
         [SetPair(mm, op \div 16, nn) EXCEPT !.pc = next3]
    \* ADD HL,ss: C from bit 15, Z unchanged
    [] op \in {\h09, \h19, \h29, \h39} ->
         LET s == HL(mm) + GetPair(mm, op \div 16)
         IN  [SetPair(mm, 2, W16(s)) EXCEPT !.c = (s > 65535), !.pc = next1]
    \* INC ss / DEC ss: no flags
    [] op \in {\h03, \h13, \h23, \h33} ->
         [SetPair(mm, op \div 16, W16(GetPair(mm, op \div 16) + 1))
            EXCEPT !.pc = next1]
    [] op \in {\h0B, \h1B, \h2B, \h3B} ->
         [SetPair(mm, op \div 16, W16(GetPair(mm, op \div 16) - 1))
            EXCEPT !.pc = next1]
    \* LD (nn),HL / LD HL,(nn) / LD (nn),A / LD A,(nn)
    [] op = \h22 ->
         [mm EXCEPT !.ram = Poke(Poke(mm.ram, nn, mm.r[RegL]),
                                 W16(nn + 1), mm.r[RegH]),
                    !.pc = next3]
    [] op = \h2A ->
         [mm EXCEPT !.r[RegL] = Read(mm, org, bin, nn),
                    !.r[RegH] = Read(mm, org, bin, W16(nn + 1)),
                    !.pc = next3]
    [] op = \h32 ->
         [mm EXCEPT !.ram = Poke(mm.ram, nn, mm.r[RegA]), !.pc = next3]
    [] op = \h3A ->
         [mm EXCEPT !.r[RegA] = Read(mm, org, bin, nn), !.pc = next3]
    \* LD A,(BC) / LD A,(DE) / LD (DE),A
    [] op = \h0A ->
         [mm EXCEPT !.r[RegA] = Read(mm, org, bin, GetPair(mm, 0)),
                    !.pc = next1]
    [] op = \h1A ->
         [mm EXCEPT !.r[RegA] = Read(mm, org, bin, GetPair(mm, 1)),
                    !.pc = next1]
    [] op = \h12 ->
         [mm EXCEPT !.ram = Poke(mm.ram, GetPair(mm, 1), mm.r[RegA]),
                    !.pc = next1]
    \* CPL: no Z, no C
    [] op = \h2F -> [mm EXCEPT !.r[RegA] = 255 - mm.r[RegA], !.pc = next1]
    \* EX DE,HL
    [] op = \hEB ->
         [mm EXCEPT !.r[RegD] = mm.r[RegH], !.r[RegE] = mm.r[RegL],
                    !.r[RegH] = mm.r[RegD], !.r[RegL] = mm.r[RegE],
                    !.pc = next1]
    \* JR e / JR cc,e
    [] op = \h18 -> [mm EXCEPT !.pc = rel]
    [] op \in {\h20, \h28, \h30, \h38} ->
         [mm EXCEPT !.pc = IF Cond(mm, (op - \h20) \div 8) THEN rel ELSE next2]
    \* DJNZ e
    [] op = \h10 ->
         LET b == (mm.r[RegB] - 1) % 256
         IN  [mm EXCEPT !.r[RegB] = b, !.pc = IF b # 0 THEN rel ELSE next2]
    \* JP nn / JP cc,nn / JP (HL)
    [] op = \hC3 -> [mm EXCEPT !.pc = nn]
    [] op \in {\hC2, \hCA, \hD2, \hDA} ->
         [mm EXCEPT !.pc = IF Cond(mm, (op - \hC2) \div 8) THEN nn ELSE next3]
    [] op = \hE9 -> [mm EXCEPT !.pc = HL(mm)]
    \* CALL nn / RET / RET cc
    [] op = \hCD -> [Push16(mm, next3) EXCEPT !.pc = nn]
    [] op = \hC9 ->
         [mm EXCEPT !.pc = Top16(mm, org, bin), !.sp = W16(mm.sp + 2)]
    [] op \in {\hC0, \hC8, \hD0, \hD8} ->
         IF Cond(mm, (op - \hC0) \div 8)
         THEN [mm EXCEPT !.pc = Top16(mm, org, bin), !.sp = W16(mm.sp + 2)]
         ELSE [mm EXCEPT !.pc = next1]
    \* PUSH qq / POP qq (3 is AF)
    [] op \in {\hC5, \hD5, \hE5} ->
         [Push16(mm, GetPair(mm, (op - \hC5) \div 16)) EXCEPT !.pc = next1]
    [] op = \hF5 ->
         [Push16(mm, mm.r[RegA] * 256 + FlagsByte(mm)) EXCEPT !.pc = next1]
    [] op \in {\hC1, \hD1, \hE1} ->
         [SetPair(mm, (op - \hC1) \div 16, Top16(mm, org, bin))
            EXCEPT !.sp = W16(mm.sp + 2), !.pc = next1]
    [] op = \hF1 ->
         LET w == Top16(mm, org, bin)
         IN  [mm EXCEPT !.r[RegA] = Hi(w),
                        !.z = ((Lo(w) \div 64) % 2 = 1),
                        !.c = (Lo(w) % 2 = 1),
                        !.sp = W16(mm.sp + 2), !.pc = next1]
    \* OUT (n),A
    [] op = \hD3 ->
         IF n1 # CONSOLE_DATA THEN [mm EXCEPT !.pc = next2]
         ELSE IF Len(mm.out) >= maxout THEN [mm EXCEPT !.st = "outfull"]
         ELSE [mm EXCEPT !.out = Append(mm.out, mm.r[RegA]), !.pc = next2]
    \* IN A,(n)
    [] op = \hDB ->
         IF Len(mm.ins) >= maxin THEN [mm EXCEPT !.st = "infull"]
         ELSE [mm EXCEPT !.r[RegA] = inp,
                         !.ins = Append(mm.ins, <<n1, inp>>),
                         !.pc = next2]
    \* CB prefix
    [] op = \hCB -> ExecCB(mm, org, bin, n1)
    \* NEG
    [] op = \hED /\ n1 = \h44 ->
         [Alu([mm EXCEPT !.r[RegA] = 0], 2, mm.r[RegA]) EXCEPT !.pc = next2]
    [] OTHER -> [mm EXCEPT !.st = "illegal"]

(***************************************************************************)
(* ast.rs.  Names are the sequences of their character codes, so that      *)
(* to_uppercase is computed and not assumed.  Data types are               *)
(* [t |-> "Byte" | "Card" | "Int" | "Char" | "ByteArray" | "CardArray" |   *)
(* "IntArray" | "Pointer", n |-> the array size].  Expressions and         *)
(* statements are records tagged by k with the fields of the Rust enum.    *)
(***************************************************************************)
\* DataType::size
size(dt) ==
  CASE dt.t \in {"Byte", "Char"} -> 1
    [] dt.t \in {"Card", "Int"} -> 2
    [] dt.t = "ByteArray" -> dt.n
    [] dt.t \in {"CardArray", "IntArray"} -> dt.n * 2
    [] OTHER -> 2

\* DataType::is_word
is_word(dt) == dt.t \in {"Card", "Int", "Pointer"}

\* str::to_uppercase on an ASCII name
to_uppercase(name) ==
  [i \in DOMAIN name |->
     IF name[i] >= 97 /\ name[i] <= 122 THEN name[i] - 32 ELSE name[i]]

\* HashMap::insert
Insert(map, key, value) ==
  [x \in (DOMAIN map) \cup {key} |-> IF x = key THEN value ELSE map[x]]

\* the names the runtime knows, upper-cased: PRINTB PRINTC PRINTE PRINT GETD PUTD
NamePRINTB == <<80, 82, 73, 78, 84, 66>>
NamePRINTC == <<80, 82, 73, 78, 84, 67>>
NamePRINTE == <<80, 82, 73, 78, 84, 69>>
NamePRINT == <<80, 82, 73, 78, 84>>
NameGETD == <<71, 69, 84, 68>>
NamePUTD == <<80, 85, 84, 68>>

\* "Main" and "main", the two keys generate looks up
NameMain == <<77, 97, 105, 110>>
NameMainLower == <<109, 97, 105, 110>>

\* RuntimeSymbols::get_function: [found, addr]
get_function(symbols, name) ==
  LET u == to_uppercase(name)
  IN  CASE u = NamePRINTB -> [found |-> TRUE, addr |-> symbols.print_b]
        [] u = NamePRINTC -> [found |-> TRUE, addr |-> symbols.print_c]
        [] u = NamePRINTE -> [found |-> TRUE, addr |-> symbols.print_e]
        [] u = NamePRINT -> [found |-> TRUE, addr |-> symbols.print]
        [] u = NameGETD -> [found |-> TRUE, addr |-> symbols.get_d]
        [] u = NamePUTD -> [found |-> TRUE, addr |-> symbols.put_d]
        [] OTHER -> [found |-> FALSE, addr |-> 0]

(***************************************************************************)
(* codegen.rs: CodeGenerator.  g is the generator: the fields of the Rust  *)
(* struct that the code reads, plus err (the Err a `?` propagates: once    *)
(* set, nothing more is emitted), ovf (a u16 addition or subtraction       *)
(* passed its range: a panic with overflow checks, a wrap without), oob (a *)
(* code[] index out of range: a panic in every build), w (the bool the     *)
(* last gen_expression returned) and patches (the history of the           *)
(* patch_word calls: the offset patched, the byte before it, the two bytes *)
(* it held, the value written and pc at the call).                         *)
(***************************************************************************)
\* CodeGenerator::new followed by set_runtime_symbols
new(origin, symbols) ==
  [ origin |-> origin, code |-> <<>>, pc |-> origin,
    globals |-> <<>>, locals |-> <<>>, procedures |-> <<>>,
    loop_stack |-> <<>>, data_offset |-> 0, runtime |-> symbols,
    err |-> "none", ovf |-> FALSE, oob |-> FALSE, w |-> FALSE,
    patches |-> <<>> ]

Live(g) == g.err = "none"

Fail(g, e) == IF Live(g) THEN [g EXCEPT !.err = e] ELSE g

\* CodeGenerator::emit
emit(g, byte) ==
  IF ~Live(g) THEN g
  ELSE [g EXCEPT !.code = Append(@, byte),
                 !.pc = W16(@ + 1),
                 !.ovf = @ \/ (g.pc + 1 > 65535)]

\* CodeGenerator::emit_bytes
RECURSIVE emit_bytes(_, _)
emit_bytes(g, bytes) ==
  IF bytes = <<>> THEN g
  ELSE emit_bytes(emit(g, Head(bytes)), Tail(bytes))

\* CodeGenerator::emit_word
emit_word(g, word) == emit(emit(g, Lo(word)), Hi(word))

\* CodeGenerator::current_address
current_address(g) == g.pc

\* CodeGenerator::patch_word
patch_word(g, addr, value) ==
  IF ~Live(g) THEN g
  ELSE LET offset == W16(addr - g.origin)
       IN  IF offset + 1 >= Len(g.code)
           THEN [g EXCEPT !.oob = TRUE, !.ovf = @ \/ (addr < g.origin)]
           ELSE [g EXCEPT !.code = PatchAt(@, offset, value),
                          !.ovf = @ \/ (addr < g.origin),
                          !.patches =
                             Append(@, [offset |-> offset,
                                        before |-> IF offset = 0 THEN 0
                                                   ELSE g.code[offset],
                                        old |-> <<g.code[offset + 1],
                                                  g.code[offset + 2]>>,
                                        value |-> value,
                                        pc |-> g.pc])]

\* CodeGenerator::emit_load_byte: LD A,n
emit_load_byte(g, value) == emit(emit(g, \h3E), value)

\* CodeGenerator::emit_load_word: LD HL,nn
emit_load_word(g, value) == emit_word(emit(g, \h21), value)

\* CodeGenerator::emit_load_var; w is is_word of the variable's type
emit_load_var(g, name) ==
  IF ~Live(g) THEN g
  ELSE IF name \in DOMAIN g.locals THEN Fail(g, "CodeGenError")
  ELSE IF name \in DOMAIN g.globals
  THEN LET info == g.globals[name]
       IN  IF is_word(info.data_type)
           THEN [emit_word(emit(g, \h2A), info.address) EXCEPT !.w = TRUE]
           ELSE [emit_word(emit(g, \h3A), info.address) EXCEPT !.w = FALSE]
  ELSE Fail(g, "UndefinedVariable")

\* CodeGenerator::emit_store_var
emit_store_var(g, name, word) ==
  IF ~Live(g) THEN g
  ELSE IF name \in DOMAIN g.globals
  THEN LET info == g.globals[name]
       IN  IF word \/ is_word(info.data_type)
           THEN emit_word(emit(g, \h22), info.address)
           ELSE emit_word(emit(g, \h32), info.address)
  ELSE Fail(g, "UndefinedVariable")

\* the gen_expression result Ok(b)
Ok(g, b) == IF Live(g) THEN [g EXCEPT !.w = b] ELSE g

RECURSIVE gen_expression(_, _)
RECURSIVE gen_args(_, _, _)
RECURSIVE gen_statement(_, _)
RECURSIVE gen_statements(_, _)
RECURSIVE emit_pops(_, _)

\* `for arg in args.iter().rev() { gen_expression(arg)?; emit(PUSH_AF) }`,
\* i the number of arguments still to push
gen_args(g, args, i) ==
  IF i = 0 THEN g
  ELSE gen_args(emit(gen_expression(g, args[i]), \hF5), args, i - 1)

\* `for _ in 0..args.len() { emit(POP_BC) }`
emit_pops(g, n) == IF n = 0 THEN g ELSE emit_pops(emit(g, \hC1), n - 1)

\* a faulty LessEqual: JR Z skips the JR C only, onto the XOR A
LessEqualTail_JrZ2 ==
  <<\h4F, \h78, \hB9, \h3E, 1, \h28, 2, \h38, 1, \hAF>>

\* Expression::LessEqual after the right operand, codegen.rs:464-475:
\* LD C,A; LD A,B; CP C; LD A,1; JR Z,+3; JR C,+1; XOR A
LessEqualTail ==
  <<\h4F, \h78, \hB9, \h3E, 1, \h28, 3, \h38, 1, \hAF>>

\* the shape shared by the comparisons of gen_expression: first operand,
\* LD B,A, second operand, then the tail
CmpShape(g, first, second, tail) ==
  emit_bytes(gen_expression(emit(gen_expression(g, first), \h47), second), tail)

\* CALL to a user procedure, or CALL 0000 when its name is not (yet) in
\* self.procedures: codegen.rs:562-567 and 876-883
emit_user_call(g1, name) ==
  IF ~Live(g1) THEN g1
  ELSE IF name \in DOMAIN g1.procedures
  THEN emit_word(emit(g1, \hCD), g1.procedures[name])
  ELSE emit_word(emit(g1, \hCD), 0)

\* BinaryOperator::Add after the right operand, left operand a word
\* (codegen.rs:323-333): g2 is the generator after the right operand
gen_add_word(g2) ==
  Ok(emit_bytes(IF Live(g2) /\ ~g2.w
                THEN emit_bytes(g2, <<\h6F, \h26, 0>>)    \* LD L,A; LD H,0
                ELSE g2,
                <<\hD1, \h19>>), TRUE)                     \* POP DE; ADD HL,DE

\* BinaryOperator::Add after the right operand, left operand a byte
\* (codegen.rs:335-351)
gen_add_byte(g2) ==
  IF ~Live(g2) THEN g2
  ELSE IF g2.w
  THEN Ok(emit_bytes(g2, <<\h4F, \h78, \h6F, \h26, 0,
                           \h16, 0, \h5F, \h19>>), TRUE)
  ELSE Ok(emit(g2, \h80), FALSE)                            \* ADD A,B

\* BinaryOperator::Add, codegen.rs:315-352: g1 is the generator after the
\* left operand
gen_add(g1, e) ==
  IF ~Live(g1) THEN g1
  ELSE IF g1.w
  THEN gen_add_word(gen_expression(emit(g1, \hE5), e.r))    \* PUSH HL
  ELSE gen_add_byte(gen_expression(emit(g1, \h47), e.r))    \* LD B,A

\* BinaryOperator::Subtract, codegen.rs:354-382
gen_subtract(g1, e) ==
  IF ~Live(g1) THEN g1
  ELSE IF g1.w
  THEN Ok(emit_bytes(gen_expression(emit(g1, \hE5), e.r),
                     <<\h54, \h5D, \hE1, \hA7, \h7D, \h93, \h6F,
                       \h7C, \h9A, \h67>>), TRUE)
  ELSE Ok(emit_bytes(gen_expression(emit(g1, \h47), e.r),
                     <<\h4F, \h78, \h91>>), FALSE)

\* CodeGenerator::gen_expression, codegen.rs:293-615
gen_expression(g, e) ==
  IF ~Live(g) THEN g
  ELSE
  CASE e.k = "Number" ->
         IF e.n >= 0 /\ e.n <= 255
         THEN Ok(emit_load_byte(g, e.n), FALSE)
         ELSE Ok(emit_load_word(g, W16(e.n)), TRUE)
    [] e.k = "Char" -> Ok(emit_load_byte(g, e.c % 256), FALSE)
    [] e.k = "Variable" -> emit_load_var(g, e.name)
    [] e.k = "Add" -> gen_add(gen_expression(g, e.l), e)
    [] e.k = "Subtract" -> gen_subtract(gen_expression(g, e.l), e)
    [] e.k = "Multiply" ->
         Ok(emit_bytes(gen_expression(emit(gen_expression(g, e.l), \h47), e.r),
                       <<\h4F, \hCD, \h00, \h00>>), FALSE)
    [] e.k = "Equal" ->
         Ok(CmpShape(g, e.l, e.r, <<\hB8, \h3E, 0, \h20, 1, \h3C>>), FALSE)
    [] e.k = "NotEqual" ->
         Ok(CmpShape(g, e.l, e.r, <<\hB8, \h3E, 0, \h28, 1, \h3C>>), FALSE)
    [] e.k = "Less" ->
         Ok(CmpShape(g, e.l, e.r,
                     <<\h4F, \h78, \hB9, \h3E, 0, \h30, 1, \h3C>>), FALSE)
    [] e.k = "Greater" ->
         Ok(CmpShape(g, e.r, e.l,
                     <<\h4F, \h78, \hB9, \h3E, 0, \h30, 1, \h3C>>), FALSE)
    [] e.k = "LessEqual" ->
         Ok(CmpShape(g, e.l, e.r, LessEqualTail), FALSE)
    [] e.k = "GreaterEqual" ->
         Ok(CmpShape(g, e.l, e.r,
                     <<\h4F, \h78, \hB9, \h3E, 0, \h38, 1, \h3C>>), FALSE)
    [] e.k \in {"And", "BitAnd"} ->
         Ok(CmpShape(g, e.l, e.r, <<\hA0>>), FALSE)                \* AND B
    [] e.k = "Or" ->
         Ok(CmpShape(g, e.l, e.r, <<\hB7, \hF6, 0>>), FALSE)       \* OR A; OR 0
    [] e.k = "BitOr" ->
         Ok(CmpShape(g, e.l, e.r, <<\h4F, \h78, \hB1>>), FALSE)    \* OR C
    [] e.k = "BitXor" ->
         Ok(CmpShape(g, e.l, e.r, <<\h4F, \h78, \hA9>>), FALSE)    \* XOR C
    [] e.k = "Negate" ->
         Ok(emit_bytes(gen_expression(g, e.inner), <<\hED, \h44>>), FALSE)
    [] e.k = "Not" ->
         Ok(emit(gen_expression(g, e.inner), \h2F), FALSE)
    [] e.k = "FunctionCall" ->
         Ok(emit_pops(emit_user_call(gen_args(g, e.args, Len(e.args)),
                                     e.name),
                      Len(e.args)), FALSE)
    [] e.k = "AddressOf" ->
         IF e.name \in DOMAIN g.globals
         THEN Ok(emit_load_word(g, g.globals[e.name].address), TRUE)
         ELSE Fail(g, "UndefinedVariable")
    [] e.k = "ArrayAccess" ->
         IF e.array \notin DOMAIN g.globals THEN Fail(g, "UndefinedVariable")
         ELSE LET g1 == emit(emit_load_word(g, g.globals[e.array].address),
                             \hE5)                                 \* PUSH HL
                  g2 == gen_expression(g1, e.index)
              IN  Ok(emit_bytes(g2, <<\h5F, \h16, 0, \hE1, \h19, \h7E>>), FALSE)
    [] OTHER -> Fail(g, "CodeGenError")

\* the runtime intrinsics of Statement::ProcCall, codegen.rs:814-868
gen_intrinsic(g, name, args, addr) ==
  emit_word(
    emit(IF args = <<>> \/ to_uppercase(name) \in {NamePRINTE, NameGETD}
         THEN g
         ELSE IF to_uppercase(name) = NamePRINTC
         THEN emit_bytes(gen_expression(g, args[1]),
                         <<\h6F, \h26, 0>>)               \* LD L,A; LD H,0
         ELSE gen_expression(g, args[1]),
         \hCD),
    addr)

gen_statements(g, stmts) ==
  IF stmts = <<>> THEN g
  ELSE gen_statements(gen_statement(g, Head(stmts)), Tail(stmts))

\* The statements that patch jumps are written in stages, one operator per
\* point of the Rust code where the generator's state is read again: the
\* parameter g<n> of a stage is the generator at that point.

\* a faulty IF: the jump over the else-block is never patched
gen_if_end_Unpatched(g6, end_jump) == g6

\* Statement::If, codegen.rs:661-698
gen_if_end(g6, end_jump) ==
  patch_word(g6, W16(end_jump + 1), current_address(g6))

gen_if_else(g4, s, else_jump, end_jump) ==
  gen_if_end(gen_statements(patch_word(g4, W16(else_jump + 1),
                                       current_address(g4)),
                            s.else_block),
             end_jump)

gen_if_then(g3, s, else_jump) ==
  IF s.has_else
  THEN gen_if_else(emit_word(emit(g3, \hC3), 0), s, else_jump,    \* JP 0000
                   current_address(g3))
  ELSE patch_word(g3, W16(else_jump + 1), current_address(g3))

gen_if(g1, s) ==
  gen_if_then(gen_statements(emit_word(emit(g1, \hCA), 0),        \* JP Z,0000
                             s.then_block),
              s, current_address(g1))

\* Statement::While, codegen.rs:700-727
pop_loop(g6) ==
  IF Live(g6) THEN [g6 EXCEPT !.loop_stack = SubSeq(@, 1, Len(@) - 1)]
  ELSE g6

push_loop(g2, loop_start) ==
  IF Live(g2) THEN [g2 EXCEPT !.loop_stack = Append(@, <<loop_start, 0>>)]
  ELSE g2

gen_while_end(g5, exit_jump) ==
  pop_loop(patch_word(g5, W16(exit_jump + 1), current_address(g5)))

gen_while_body(g1, s, loop_start) ==
  gen_while_end(
    emit_word(emit(gen_statements(
                     push_loop(emit_word(emit(g1, \hCA), 0),      \* JP Z,0000
                               loop_start),
                     s.body),
                   \hC3), loop_start),                            \* JP loop_start
    current_address(g1))

gen_while(g, s) ==
  gen_while_body(emit(gen_expression(g, s.condition), \hA7),      \* AND A
                 s, current_address(g))

\* Statement::For, codegen.rs:729-788
gen_for_end(g12, exit_patch) ==
  patch_word(g12, W16(exit_patch), current_address(g12))

gen_for_increment(g9, s, loop_start, exit_patch) ==
  gen_for_end(
    emit_word(
      emit(emit_store_var(
             IF s.has_step
             THEN emit(gen_expression(emit(g9, \h47), s.step), \h80)
             ELSE emit(g9, \h3C),                                 \* INC A
             s.var, FALSE),
           \hC3), loop_start),                                    \* JP loop_start
    exit_patch)

gen_for_body(g5, s, loop_start, exit_jump, exit_jump2) ==
  LET exit_patch == current_address(g5) - 2
      continue_addr == current_address(g5)
  IN  gen_for_increment(
        emit_load_var(
          gen_statements(
            patch_word(patch_word(g5, W16(exit_jump + 1), continue_addr),
                       W16(exit_jump2), continue_addr),
            s.body),
          s.var),
        s, loop_start, exit_patch)

gen_for_exit(g4, s, loop_start, exit_jump) ==
  LET exit_jump2 == current_address(g4) - 3
  IN  gen_for_body(emit_word(emit(emit_word(g4, 0), \hC3), 0), \* 0000; JP 0000
                   s, loop_start, exit_jump, exit_jump2)

gen_for_jumps(g3, s, loop_start) ==
  gen_for_exit(emit(emit_word(emit(g3, \hCA), 0), \hDA),  \* JP Z,0000; JP C,
               s, loop_start, current_address(g3))

gen_for_test(g1, s) ==
  gen_for_jumps(
    emit_bytes(gen_expression(emit(emit_load_var(g1, s.var), \h47), \* LD B,A
                              s.end),
               <<\h4F, \h78, \hB9>>),                   \* LD C,A; LD A,B; CP C
    s, current_address(g1))

gen_for(g, s) ==
  gen_for_test(emit_store_var(gen_expression(g, s.start), s.var, FALSE), s)

\* Statement::Assignment, codegen.rs:626-634: g1 is the generator after the
\* value
gen_assignment(g1, s) ==
  IF ~Live(g1) THEN g1 ELSE emit_store_var(g1, s.target, g1.w)

\* CodeGenerator::gen_statement, codegen.rs:618-902
gen_statement(g, s) ==
  IF ~Live(g) THEN g
  ELSE
  CASE s.k = "VarDecl" -> g
    [] s.k = "Assignment" -> gen_assignment(gen_expression(g, s.value), s)
    [] s.k = "ArrayAssignment" ->
         IF s.array \notin DOMAIN g.globals THEN Fail(g, "UndefinedVariable")
         ELSE emit_bytes(
                gen_expression(
                  emit(emit_load_word(emit(gen_expression(g, s.value),
                                           \h47),                 \* LD B,A
                                      g.globals[s.array].address),
                       \hE5),                                     \* PUSH HL
                  s.index),
                <<\h5F, \h16, 0, \hE1, \h19, \h78, \h77>>)
    [] s.k = "If" ->
         gen_if(emit(gen_expression(g, s.condition), \hA7), s)    \* AND A
    [] s.k = "While" -> gen_while(g, s)
    [] s.k = "For" -> gen_for(g, s)
    [] s.k = "Exit" ->
         IF g.loop_stack = <<>> THEN g
         ELSE IF g.loop_stack[Len(g.loop_stack)][2] # 0
         THEN emit_word(emit(g, \hC3), g.loop_stack[Len(g.loop_stack)][2])
         ELSE emit_word(emit(g, \hC3), 0)
    [] s.k = "Return" ->
         emit(IF s.has_value THEN gen_expression(g, s.value) ELSE g, \hC9)
    [] s.k = "ProcCall" ->
         IF get_function(g.runtime, s.name).found
         THEN gen_intrinsic(g, s.name, s.args,
                            get_function(g.runtime, s.name).addr)
         ELSE emit_pops(emit_user_call(gen_args(g, s.args, Len(s.args)),
                                       s.name),
                        Len(s.args))
    [] s.k = "Block" -> gen_statements(g, s.statements)
    [] OTHER -> g

\* `for local in &proc.locals { globals.insert(..); data_offset += size }`
RECURSIVE alloc_locals(_, _)
alloc_locals(g, locals) ==
  IF locals = <<>> THEN g
  ELSE LET v == Head(locals)
           sz == W16(size(v.data_type))
           g1 == [g EXCEPT
                    !.globals = Insert(@, v.name,
                                  [address |-> g.data_offset,
                                   data_type |-> v.data_type]),
                    !.data_offset = W16(@ + sz),
                    !.ovf = @ \/ (g.data_offset + sz > 65535)]
       IN  alloc_locals(g1, Tail(locals))

\* CodeGenerator::gen_procedure, codegen.rs:904-933
gen_procedure(g, proc) ==
  IF ~Live(g) THEN g
  ELSE LET g1 == [g EXCEPT !.procedures =
                               Insert(@, proc.name, current_address(g)),
                           !.locals = <<>>]
           g2 == alloc_locals(g1, proc.locals)
       IN  emit(gen_statements(g2, proc.body), \hC9)              \* RET

RECURSIVE gen_procedures(_, _)
gen_procedures(g, procs) ==
  IF procs = <<>> THEN g
  ELSE gen_procedures(gen_procedure(g, Head(procs)), Tail(procs))

\* the first pass of generate, codegen.rs:938-949: [globals, var_addr, ovf]
RECURSIVE alloc_globals(_, _)
alloc_globals(a, vs) ==
  IF vs = <<>> THEN a
  ELSE LET v == Head(vs)
           sz == W16(size(v.data_type))
       IN  alloc_globals(
             [globals |-> Insert(a.globals, v.name,
                            [address |-> a.var_addr, data_type |-> v.data_type]),
              var_addr |-> W16(a.var_addr + sz),
              ovf |-> a.ovf \/ (a.var_addr + sz > 65535)],
             Tail(vs))

\* the patch of the entry CALL, codegen.rs:962-975
patch_main(g, program, main_call) ==
  IF ~Live(g) THEN g
  ELSE IF NameMain \in DOMAIN g.procedures
  THEN patch_word(g, W16(main_call + 1), g.procedures[NameMain])
  ELSE IF NameMainLower \in DOMAIN g.procedures
  THEN patch_word(g, W16(main_call + 1), g.procedures[NameMainLower])
  ELSE IF program.procedures # <<>>
  THEN patch_word(g, W16(main_call + 1),
                  g.procedures[program.procedures[1].name])
  ELSE g

\* CodeGenerator::generate, codegen.rs:935-981; the result is the generator,
\* whose code is the Vec returned when err is "none"
generate(g, program) ==
  LET a == alloc_globals([globals |-> g.globals, var_addr |-> 8192,
                          ovf |-> FALSE], program.globals)
      g1 == [g EXCEPT !.globals = a.globals, !.data_offset = a.var_addr,
                      !.ovf = a.ovf]
      main_call == current_address(g1)
      g2 == emit(emit_word(emit(g1, \hCD), 0), \h76)         \* CALL 0000; HALT
      g3 == gen_procedures(g2, program.procedures)
  IN  patch_main(g3, program, main_call)

(***************************************************************************)
(* main.rs: the driver from the parsed program to the binary.              *)
(***************************************************************************)
\* a faulty layout: the operand of the leading JP is the runtime's address
build_binary_JumpToRuntime(code_start, runtime_code, program_code) ==
  LET t == W16(code_start - Len(runtime_code))
  IN  <<\hC3, Lo(t), Hi(t)>> \o runtime_code \o program_code

\* the final binary, main.rs:125-130
build_binary(code_start, runtime_code, program_code) ==
  <<\hC3, Lo(code_start), Hi(code_start)>> \o runtime_code \o program_code

\* main, main.rs:96-145, for origin org and a parsed program; checks says
\* whether the build panics on integer overflow (a debug build) or wraps.
\* status is "ok" (the binary is written), "error" (generate returned Err:
\* exit 1, nothing written) or "panic".
\* rt is the result of generate_runtime and g the generator after generate
link(org, checks, rt, g) ==
  LET code_start == rt.symbols.end_address
      ovf == org + 3 > 65535 \/ rt.ovf \/ g.ovf
      status == IF g.oob \/ (checks /\ ovf) THEN "panic"
                ELSE IF g.err # "none" THEN "error"
                ELSE "ok"
  IN  [ status |-> status,
        err |-> g.err,
        runtime_code |-> rt.code,
        program_code |-> g.code,
        code_start |-> code_start,
        binary |-> IF status = "ok"
                   THEN build_binary(code_start, rt.code, g.code)
                   ELSE <<>>,
        symbols |-> rt.symbols,
        procedures |-> g.procedures,
        globals |-> g.globals,
        pc |-> g.pc,
        patches |-> g.patches,
        locals |-> g.locals ]

codegen(org, program, checks, rt) ==
  link(org, checks, rt,
       generate(new(rt.symbols.end_address, rt.symbols), program))

compile(org, program, checks) ==
  codegen(org, program, checks, generate_runtime(W16(org + 3)))

(***************************************************************************)
(* Source programs: the ASTs the parser builds (ast.rs), written out.      *)
(***************************************************************************)
Number(n) == [k |-> "Number", n |-> n]
Variable(name) == [k |-> "Variable", name |-> name]
ArrayAccess(array, index) == [k |-> "ArrayAccess", array |-> array, index |-> index]
FunctionCall(name, args) == [k |-> "FunctionCall", name |-> name, args |-> args]
Assignment(target, value) == [k |-> "Assignment", target |-> target, value |-> value]
ArrayAssignment(array, index, value) ==
  [k |-> "ArrayAssignment", array |-> array, index |-> index, value |-> value]
While(condition, body) == [k |-> "While", condition |-> condition, body |-> body]
If(condition, then_block) ==
  [k |-> "If", condition |-> condition, then_block |-> then_block,
   has_else |-> FALSE, else_block |-> <<>>]
IfElse(condition, then_block, else_block) ==
  [k |-> "If", condition |-> condition, then_block |-> then_block,
   has_else |-> TRUE, else_block |-> else_block]
For(var, start, end, body) ==
  [k |-> "For", var |-> var, start |-> start, end |-> end,
   has_step |-> FALSE, step |-> Number(0), body |-> body]
Exit == [k |-> "Exit"]
Return == [k |-> "Return", has_value |-> FALSE, value |-> Number(0)]
ReturnValue(value) == [k |-> "Return", has_value |-> TRUE, value |-> value]
ProcCall(name, args) == [k |-> "ProcCall", name |-> name, args |-> args]
AddressOf(name) == [k |-> "AddressOf", name |-> name]
\* Expression::Add, Subtract, Multiply, Equal, NotEqual, Less, LessEqual,
\* Greater, GreaterEqual (left, right): op is the variant's name
Binary(op, left, right) == [k |-> op, l |-> left, r |-> right]
PointerAssignment(pointer, value) ==
  [k |-> "PointerAssignment", pointer |-> pointer, value |-> value]
Global(name, t, n) == [name |-> name, data_type |-> [t |-> t, n |-> n]]
Procedure(name, body) ==
  [name |-> name, params |-> <<>>, locals |-> <<>>, body |-> body]
Program(globals, procedures) == [globals |-> globals, procedures |-> procedures]

(***************************************************************************)
(* The parser, parser.rs.  The token list is the lexer's output: records   *)
(* with the token's kind t and its payload v (an identifier's characters,  *)
(* a number in a one-element sequence).  pos is Parser::pos.  A parse      *)
(* function yields the position it leaves, the error it returns ("" for    *)
(* Ok) and the value.  A loop of the parser whose iteration comes back to  *)
(* the loop's head without having moved pos would repeat that iteration    *)
(* for ever, pos being all the state the parser's control reads: the       *)
(* result is then "Diverges", which stands for the call never returning.   *)
(***************************************************************************)
Tok(t) == [t |-> t, v |-> <<>>]
Identifier(name) == [t |-> "Identifier", v |-> name]

POk(pos, val) == [pos |-> pos, err |-> "", val |-> val]
PErr(pos, e) == [pos |-> pos, err |-> e, val |-> <<>>]

\* Parser::current, parser.rs:17-23
current(toks, pos) == IF pos < Len(toks) THEN toks[pos + 1].t ELSE "Eof"

\* advance that leaves the position at a MODULE token
advance_Module(toks, pos) ==
  IF pos < Len(toks) /\ toks[pos + 1].t # "Module" THEN pos + 1 ELSE pos

\* Parser::advance, parser.rs:33-37
advance(toks, pos) == IF pos < Len(toks) THEN pos + 1 ELSE pos

\* Parser::skip_newlines, parser.rs:39-43
RECURSIVE skip_newlines(_, _)
skip_newlines(toks, pos) ==
  IF current(toks, pos) = "Newline" THEN skip_newlines(toks, advance(toks, pos))
  ELSE pos

\* expect after its skip_newlines
expect_here(toks, pos, expected) ==
  IF current(toks, pos) = expected THEN POk(advance(toks, pos), <<>>)
  ELSE PErr(pos, "UnexpectedToken")

\* Parser::expect, parser.rs:45-56
expect(toks, pos, expected) ==
  expect_here(toks, skip_newlines(toks, pos), expected)

expect_identifier_here(toks, pos) ==
  IF current(toks, pos) = "Identifier"
  THEN POk(advance(toks, pos), toks[pos + 1].v)
  ELSE PErr(pos, "UnexpectedToken")

\* Parser::expect_identifier, parser.rs:58-69
expect_identifier(toks, pos) ==
  expect_identifier_here(toks, skip_newlines(toks, pos))

\* the result e of a parse step, with the value val when it is Ok
with_val(e, val) == IF e.err # "" THEN e ELSE POk(e.pos, val)

\* `self.expect(expected)?; Ok(val)` after the step with result r
closing(toks, r, expected, val) ==
  IF r.err # "" THEN r ELSE with_val(expect(toks, r.pos, expected), val)

parse_number_here(toks, pos) ==
  IF current(toks, pos) = "Number"
  THEN POk(advance(toks, pos), toks[pos + 1].v[1])
  ELSE PErr(pos, "UnexpectedToken")

\* Parser::parse_number, parser.rs:114-126
parse_number(toks, pos) == parse_number_here(toks, skip_newlines(toks, pos))

\* the array type of a base type, parser.rs:103-108
ArrayOf(base) ==
  CASE base \in {"Byte", "Char"} -> "ByteArray"
    [] base = "Card" -> "CardArray"
    [] OTHER -> "IntArray"

\* parse_type after the ARRAY keyword, parser.rs:90-108
array_size(toks, pos, base) ==
  IF current(toks, pos) = "LeftParen"
  THEN closing(toks, parse_number(toks, advance(toks, pos)), "RightParen",
               [t |-> ArrayOf(base),
                n |-> parse_number(toks, advance(toks, pos)).val])
  ELSE POk(pos, [t |-> ArrayOf(base), n |-> 256])

\* parse_type after the base type, parser.rs:87-111
parse_array(toks, pos, base) ==
  IF current(toks, pos) = "Array"
  THEN array_size(toks, skip_newlines(toks, advance(toks, pos)), base)
  ELSE POk(pos, [t |-> base, n |-> 0])

parse_type_here(toks, pos) ==
  CASE current(toks, pos) = "Byte" ->
         parse_array(toks, skip_newlines(toks, advance(toks, pos)), "Byte")
    [] current(toks, pos) = "Card" ->
         parse_array(toks, skip_newlines(toks, advance(toks, pos)), "Card")
    [] current(toks, pos) = "Int" ->
         parse_array(toks, skip_newlines(toks, advance(toks, pos)), "Int")
    [] current(toks, pos) = "Char_" ->
         parse_array(toks, skip_newlines(toks, advance(toks, pos)), "Char")
    [] OTHER -> PErr(pos, "ParserError")

\* Parser::parse_type, parser.rs:72-112
parse_type(toks, pos) == parse_type_here(toks, skip_newlines(toks, pos))

\* the operator tokens of the precedence levels, lowest first: parse_or,
\* parse_and, parse_comparison, parse_shift, parse_additive and
\* parse_multiplicative, parser.rs:219-379
Levels ==
  << {"Or", "Xor"}, {"And"},
     {"Equal", "NotEqual", "Less", "LessEqual", "Greater", "GreaterEqual"},
     {"Lsh", "Rsh"}, {"Plus", "Minus"}, {"Star", "Slash", "Mod"} >>

\* the Expression variant a level builds for its operator token
VariantOf(t) ==
  CASE t = "Plus" -> "Add"
    [] t = "Minus" -> "Subtract"
    [] t = "Star" -> "Multiply"
    [] t = "Slash" -> "Divide"
    [] t = "Mod" -> "Modulo"
    [] t = "Lsh" -> "LeftShift"
    [] t = "Rsh" -> "RightShift"
    [] OTHER -> t

\* an iteration that began at the loop's head at position head is back at
\* the head at position next
Repeats(head, next) == next <= head

RECURSIVE parse_expression(_, _)
RECURSIVE more_arguments(_, _, _)
RECURSIVE parse_block(_, _)

\* Parser::parse_argument_list, parser.rs:385-401
parse_argument_list_here(toks, pos) ==
  IF current(toks, pos) = "RightParen" THEN POk(pos, <<>>)
  ELSE more_arguments(toks, parse_expression(toks, pos), <<>>)

parse_argument_list(toks, pos) ==
  parse_argument_list_here(toks, skip_newlines(toks, pos))

\* the body of the while loop entered at position head, with the result r
\* of its argument
next_argument(toks, head, r, args) ==
  IF r.err = "" /\ Repeats(head, r.pos) THEN PErr(r.pos, "Diverges")
  ELSE more_arguments(toks, r, args)

\* `args.push(..); while self.current() == &Token::Comma`, with r the
\* result of the argument just parsed
more_arguments(toks, r, args) ==
  IF r.err # "" THEN r
  ELSE IF current(toks, r.pos) = "Comma"
  THEN next_argument(toks, r.pos,
                     parse_expression(toks, advance(toks, r.pos)),
                     Append(args, r.val))
  ELSE POk(r.pos, Append(args, r.val))

\* parse_primary after an identifier and skip_newlines, parser.rs:148-166
after_name(toks, pos, name) ==
  CASE current(toks, pos) = "LeftBracket" ->
         closing(toks, parse_expression(toks, advance(toks, pos)),
                 "RightBracket",
                 ArrayAccess(name,
                             parse_expression(toks, advance(toks, pos)).val))
    [] current(toks, pos) = "LeftParen" ->
         closing(toks, parse_argument_list(toks, advance(toks, pos)),
                 "RightParen",
                 FunctionCall(name,
                              parse_argument_list(toks, advance(toks, pos)).val))
    [] OTHER -> POk(pos, Variable(name))

address_of(e) == with_val(e, AddressOf(e.val))

RECURSIVE parse_primary(_, _)
RECURSIVE parse_unary(_, _)
RECURSIVE parse_binary(_, _, _)
RECURSIVE binary_loop(_, _, _)

\* Expression::Dereference, Negate, Not: k is the variant's name
Unary(k, r) == with_val(r, [k |-> k, inner |-> r.val])

parse_primary_here(toks, pos) ==
  CASE current(toks, pos) = "Number" ->
         POk(advance(toks, pos), Number(toks[pos + 1].v[1]))
    [] current(toks, pos) = "String" ->
         POk(advance(toks, pos), [k |-> "String", s |-> toks[pos + 1].v])
    [] current(toks, pos) = "Char" ->
         POk(advance(toks, pos), [k |-> "Char", c |-> toks[pos + 1].v[1]])
    [] current(toks, pos) = "Identifier" ->
         after_name(toks, skip_newlines(toks, advance(toks, pos)),
                    toks[pos + 1].v)
    [] current(toks, pos) = "LeftParen" ->
         closing(toks, parse_expression(toks, advance(toks, pos)),
                 "RightParen",
                 parse_expression(toks, advance(toks, pos)).val)
    [] current(toks, pos) = "At" ->
         address_of(expect_identifier(toks, advance(toks, pos)))
    [] current(toks, pos) = "Caret" ->
         Unary("Dereference", parse_primary(toks, advance(toks, pos)))
    [] current(toks, pos) = "Minus" ->
         Unary("Negate", parse_unary(toks, advance(toks, pos)))
    [] current(toks, pos) = "Not" ->
         Unary("Not", parse_unary(toks, advance(toks, pos)))
    [] OTHER -> PErr(pos, "ParserError")

\* Parser::parse_primary, parser.rs:129-199
parse_primary(toks, pos) == parse_primary_here(toks, skip_newlines(toks, pos))

parse_unary_here(toks, pos) ==
  CASE current(toks, pos) = "Minus" ->
         Unary("Negate", parse_unary(toks, advance(toks, pos)))
    [] current(toks, pos) = "Not" ->
         Unary("Not", parse_unary(toks, advance(toks, pos)))
    [] OTHER -> parse_primary(toks, pos)

\* Parser::parse_unary, parser.rs:201-216
parse_unary(toks, pos) == parse_unary_here(toks, skip_newlines(toks, pos))

\* a level's loop after `self.advance(); let right = ..?`, with the result
\* right of the right operand: left = Expression::<variant>(left, right)
binary_right(toks, left, right, op, lv) ==
  IF right.err # "" THEN right
  ELSE IF Repeats(left.pos, right.pos) THEN PErr(right.pos, "Diverges")
  ELSE binary_loop(toks,
                   POk(right.pos, Binary(VariantOf(op), left.val, right.val)),
                   lv)

\* a level's loop after its skip_newlines, at position pos
binary_next(toks, left, pos, lv) ==
  IF current(toks, pos) \in Levels[lv]
  THEN binary_right(toks, left, parse_binary(toks, advance(toks, pos), lv + 1),
                    toks[pos + 1].t, lv)
  ELSE POk(pos, left.val)

\* the loop of level lv with the result left of the operand before it
binary_loop(toks, left, lv) ==
  IF left.err # "" THEN left
  ELSE binary_next(toks, left, skip_newlines(toks, left.pos), lv)

\* the parse function of level lv: parse_or for 1, ..,
\* parse_multiplicative for 6, parse_unary below them
parse_binary(toks, pos, lv) ==
  IF lv > Len(Levels) THEN parse_unary(toks, pos)
  ELSE binary_loop(toks, parse_binary(toks, pos, lv + 1), lv)

\* Parser::parse_expression, parser.rs:380-382
parse_expression(toks, pos) == parse_binary(toks, pos, 1)

\* parse_var_decl after the name with result e, parser.rs:408-419
var_init(toks, e, dt) ==
  IF e.err # "" THEN e
  ELSE IF current(toks, e.pos) = "Equal"
  THEN with_val(parse_expression(toks, advance(toks, e.pos)),
                [name |-> e.val, data_type |-> dt])
  ELSE POk(e.pos, [name |-> e.val, data_type |-> dt])

var_name(toks, r) ==
  IF r.err # "" THEN r
  ELSE var_init(toks, expect_identifier(toks, r.pos), r.val)

\* Parser::parse_var_decl, parser.rs:404-420
parse_var_decl(toks, pos) == var_name(toks, parse_type(toks, pos))

\* RETURN after `advance(); skip_newlines()`, parser.rs:515-521
return_value(toks, pos) ==
  IF current(toks, pos) \in {"Newline", "Eof", "Od", "Fi"}
  THEN POk(pos, <<Return>>)
  ELSE with_val(parse_expression(toks, pos),
                <<ReturnValue(parse_expression(toks, pos).val)>>)

\* `self.expect(Token::Equal)?; let value = self.parse_expression()?` and
\* the statement made of the step's value l and that value
assigned(toks, e, l, kind) ==
  IF e.err # "" THEN e
  ELSE with_val(parse_expression(toks, e.pos),
          <<CASE kind = "Assignment" ->
                   Assignment(l, parse_expression(toks, e.pos).val)
              [] kind = "ArrayAssignment" ->
                   ArrayAssignment(l[1], l[2],
                                   parse_expression(toks, e.pos).val)
              [] OTHER ->
                   PointerAssignment(l, parse_expression(toks, e.pos).val)>>)

array_target(toks, r, name) ==
  IF r.err # "" THEN r
  ELSE assigned(toks,
                closing(toks, expect(toks, r.pos, "RightBracket"), "Equal",
                        <<>>),
                <<name, r.val>>, "ArrayAssignment")

pointer_target(toks, r) ==
  IF r.err # "" THEN r
  ELSE assigned(toks, expect(toks, r.pos, "Equal"), r.val,
                "PointerAssignment")

\* a statement after an identifier and skip_newlines, parser.rs:529-560
after_identifier(toks, pos, name) ==
  CASE current(toks, pos) = "LeftBracket" ->
         array_target(toks, parse_expression(toks, advance(toks, pos)), name)
    [] current(toks, pos) = "Equal" ->
         assigned(toks, POk(advance(toks, pos), <<>>), name, "Assignment")
    [] current(toks, pos) = "LeftParen" ->
         closing(toks, parse_argument_list(toks, advance(toks, pos)),
                 "RightParen",
                 <<ProcCall(name,
                            parse_argument_list(toks, advance(toks, pos)).val)>>)
    [] OTHER -> POk(pos, <<ProcCall(name, <<>>)>>)

var_decl(r) == with_val(r, <<[k |-> "VarDecl", var |-> r.val]>>)

\* IF after the else-block with result e, parser.rs:455-461
if_end(toks, condition, then_block, e) ==
  closing(toks, e, "Fi", <<IfElse(condition, then_block, e.val)>>)

\* IF after the then-block with result t, parser.rs:448-461
if_else(toks, condition, t) ==
  IF t.err # "" THEN t
  ELSE IF current(toks, t.pos) = "Else"
  THEN if_end(toks, condition, t.val, parse_block(toks, advance(toks, t.pos)))
  ELSE closing(toks, t, "Fi", <<If(condition, t.val)>>)

\* IF after the condition and skip_newlines: THEN is optional
if_then(toks, condition, pos) ==
  if_else(toks, condition,
          parse_block(toks, IF current(toks, pos) = "Then"
                            THEN advance(toks, pos) ELSE pos))

\* the IF statement after its condition with result c, parser.rs:436-462
if_condition(toks, c) ==
  IF c.err # "" THEN c ELSE if_then(toks, c.val, skip_newlines(toks, c.pos))

while_end(toks, condition, b) ==
  closing(toks, b, "Od", <<While(condition, b.val)>>)

while_body(toks, condition, d) ==
  IF d.err # "" THEN d ELSE while_end(toks, condition, parse_block(toks, d.pos))

\* the WHILE statement after its condition with result c, parser.rs:465-472
while_do(toks, c) ==
  IF c.err # "" THEN c ELSE while_body(toks, c.val, expect(toks, c.pos, "Do"))

for_body(toks, f, b) == closing(toks, b, "Od", <<[f EXCEPT !.body = b.val]>>)

for_do(toks, f, d) ==
  IF d.err # "" THEN d ELSE for_body(toks, f, parse_block(toks, d.pos))

for_step(toks, f, st) ==
  IF st.err # "" THEN st
  ELSE for_do(toks, [f EXCEPT !.has_step = TRUE, !.step = st.val],
              expect(toks, st.pos, "Do"))

for_end(toks, var, start, e) ==
  IF e.err # "" THEN e
  ELSE IF current(toks, e.pos) = "Step"
  THEN for_step(toks, For(var, start, e.val, <<>>),
                parse_expression(toks, advance(toks, e.pos)))
  ELSE for_do(toks, For(var, start, e.val, <<>>), expect(toks, e.pos, "Do"))

for_to(toks, var, start, t) ==
  IF t.err # "" THEN t
  ELSE for_end(toks, var, start, parse_expression(toks, t.pos))

for_start(toks, var, st) ==
  IF st.err # "" THEN st
  ELSE for_to(toks, var, st.val, expect(toks, st.pos, "To"))

for_equal(toks, var, e) ==
  IF e.err # "" THEN e ELSE for_start(toks, var, parse_expression(toks, e.pos))

\* the FOR statement after its variable with result v, parser.rs:475-501
for_var(toks, v) ==
  IF v.err # "" THEN v ELSE for_equal(toks, v.val, expect(toks, v.pos, "Equal"))

parse_statement_here(toks, pos) ==
  CASE current(toks, pos) \in {"Eof", "Od", "Fi", "Until"} -> POk(pos, <<>>)
    [] current(toks, pos) \in {"Byte", "Card", "Int", "Char_"} ->
         var_decl(parse_var_decl(toks, pos))
    [] current(toks, pos) = "If" ->
         if_condition(toks, parse_expression(toks, advance(toks, pos)))
    [] current(toks, pos) = "While" ->
         while_do(toks, parse_expression(toks, advance(toks, pos)))
    [] current(toks, pos) = "For" ->
         for_var(toks, expect_identifier(toks, advance(toks, pos)))
    [] current(toks, pos) = "Exit" -> POk(advance(toks, pos), <<Exit>>)
    [] current(toks, pos) = "Return" ->
         return_value(toks, skip_newlines(toks, advance(toks, pos)))
    [] current(toks, pos) = "Identifier" ->
         after_identifier(toks, skip_newlines(toks, advance(toks, pos)),
                          toks[pos + 1].v)
    [] current(toks, pos) = "Caret" ->
         pointer_target(toks, parse_primary(toks, advance(toks, pos)))
    [] OTHER -> PErr(pos, "ParserError")

\* Parser::parse_statement, parser.rs:423-582: the value is the Option as
\* a sequence of no or one statement
parse_statement(toks, pos) ==
  parse_statement_here(toks, skip_newlines(toks, pos))

RECURSIVE block_loop(_, _, _)

\* the loop of parse_block after the statement with result r, the
\* iteration having begun at position head
block_next(toks, r, statements, head) ==
  IF r.err # "" THEN r
  ELSE IF r.val = <<>> THEN POk(r.pos, statements)
  ELSE IF Repeats(head, r.pos) THEN PErr(r.pos, "Diverges")
  ELSE block_loop(toks, skip_newlines(toks, r.pos), statements \o r.val)

block_loop(toks, pos, statements) ==
  IF current(toks, pos) \in {"Od", "Fi", "Else", "ElseIf", "Until", "Eof",
                             "Return"}
  THEN POk(pos, statements)
  ELSE block_next(toks, parse_statement(toks, pos), statements, pos)

\* Parser::parse_block, parser.rs:584-605
parse_block(toks, pos) == block_loop(toks, skip_newlines(toks, pos), <<>>)

RECURSIVE parameter_loop(_, _, _)

\* the loop of parse_parameter_list after a parameter's name, result e,
\* the iteration having begun at position head
parameter_next(toks, e, dt, params, pos, head) ==
  IF current(toks, pos) = "Comma"
  THEN IF Repeats(head, advance(toks, pos)) THEN PErr(pos, "Diverges")
       ELSE parameter_loop(toks, advance(toks, pos),
                           Append(params, [name |-> e.val, data_type |-> dt]))
  ELSE POk(pos, Append(params, [name |-> e.val, data_type |-> dt]))

parameter_name(toks, e, dt, params, head) ==
  IF e.err # "" THEN e
  ELSE parameter_next(toks, e, dt, params, skip_newlines(toks, e.pos), head)

parameter_type(toks, r, params, head) ==
  IF r.err # "" THEN r
  ELSE parameter_name(toks, expect_identifier(toks, r.pos), r.val, params,
                      head)

parameter_loop(toks, pos, params) ==
  parameter_type(toks, parse_type(toks, pos), params, pos)

parse_parameter_list_here(toks, pos) ==
  IF current(toks, pos) = "RightParen" THEN POk(pos, <<>>)
  ELSE parameter_loop(toks, pos, <<>>)

\* Parser::parse_parameter_list, parser.rs:668-690
parse_parameter_list(toks, pos) ==
  parse_parameter_list_here(toks, skip_newlines(toks, pos))

\* parse_procedure: `if self.current() == &Token::Return` after the block
\* and skip_newlines, parser.rs:653-665
procedure_end(toks, pos, proc) ==
  IF current(toks, pos) = "Return"
  THEN with_val(parse_statement(toks, pos),
                [proc EXCEPT !.body = @ \o parse_statement(toks, pos).val])
  ELSE POk(pos, proc)

procedure_body(toks, r, proc) ==
  IF r.err # "" THEN r
  ELSE procedure_end(toks, skip_newlines(toks, r.pos),
                     [proc EXCEPT !.body = r.val])

RECURSIVE procedure_locals(_, _, _)

procedure_local(toks, r, proc, head) ==
  IF r.err # "" THEN r
  ELSE IF Repeats(head, r.pos) THEN PErr(r.pos, "Diverges")
  ELSE procedure_locals(toks, skip_newlines(toks, r.pos),
                        [proc EXCEPT !.locals = Append(@, r.val)])

\* the loop over local declarations and the body, parser.rs:637-650
procedure_locals(toks, pos, proc) ==
  IF current(toks, pos) \in {"Byte", "Card", "Int", "Char_"}
  THEN procedure_local(toks, parse_var_decl(toks, pos), proc, pos)
  ELSE procedure_body(toks, parse_block(toks, pos), proc)

procedure_with_params(toks, r, name) ==
  IF r.err # "" THEN r
  ELSE procedure_locals(toks, skip_newlines(toks, skip_newlines(toks, r.pos)),
                        [name |-> name, params |-> r.val, locals |-> <<>>,
                         body |-> <<>>])

\* parse_procedure after the name with result e, parser.rs:620-630
procedure_params(toks, e) ==
  IF e.err # "" THEN e
  ELSE IF current(toks, e.pos) = "LeftParen"
  THEN procedure_with_params(toks,
         closing(toks, parse_parameter_list(toks, advance(toks, e.pos)),
                 "RightParen",
                 parse_parameter_list(toks, advance(toks, e.pos)).val),
         e.val)
  ELSE procedure_with_params(toks, POk(e.pos, <<>>), e.val)

procedure_name(toks, r) ==
  IF r.err # "" THEN r ELSE procedure_params(toks, expect_identifier(toks, r.pos))

\* Parser::parse_procedure, parser.rs:608-666
parse_procedure(toks, pos) ==
  IF current(toks, pos) = "Func"
  THEN procedure_name(toks, parse_type(toks, advance(toks, pos)))
  ELSE procedure_name(toks, POk(advance(toks, pos), <<>>))

RECURSIVE parse_loop(_, _, _)

\* the loop of parse after the arm that began at position head left the
\* position next
parse_again(toks, head, next, program) ==
  IF Repeats(head, next) THEN PErr(next, "Diverges")
  ELSE parse_loop(toks, skip_newlines(toks, next), program)

parse_global(toks, r, program, head) ==
  IF r.err # "" THEN r
  ELSE parse_again(toks, head, r.pos,
                   [program EXCEPT !.globals = Append(@, r.val)])

parse_proc(toks, r, program, head) ==
  IF r.err # "" THEN r
  ELSE parse_again(toks, head, r.pos,
                   [program EXCEPT !.procedures = Append(@, r.val)])

\* the loop of parse after skip_newlines, parser.rs:695-724
parse_loop(toks, pos, program) ==
  CASE current(toks, pos) = "Eof" -> POk(pos, program)
    [] current(toks, pos) \in {"Byte", "Card", "Int", "Char_"} ->
         parse_global(toks, parse_var_decl(toks, pos), program, pos)
    [] current(toks, pos) \in {"Proc", "Func"} ->
         parse_proc(toks, parse_procedure(toks, pos), program, pos)
    [] current(toks, pos) = "Module" ->
         parse_again(toks, pos, advance(toks, pos), program)
    [] OTHER -> PErr(pos, "ParserError")

\* Parser::parse, parser.rs:692-727
parse(toks) == parse_loop(toks, skip_newlines(toks, 0), Program(<<>>, <<>>))

\* identifiers as written in the sources below
NamePrintB == <<80, 114, 105, 110, 116, 66>>
NamePrintE == <<80, 114, 105, 110, 116, 69>>
NamePutD == <<80, 117, 116, 68>>
Name_i == <<105>>
Name_a == <<97>>
NameMAIN == <<77, 65, 73, 78>>
NameMixed == <<109, 65, 105, 78>>
NameFoo == <<70, 111, 111>>
NameBar == <<66, 97, 114>>
NameHelper == <<72, 101, 108, 112, 101, 114>>


\* the marker a test program writes after the construct under test: PutD('!')
Mark == ProcCall(NamePutD, <<Number(33)>>)

\* BYTE i  PROC Main  FOR i=a TO b DO PutD(i) OD  PutD('!')  RETURN
ProgFor(a, b) ==
  Program(<<Global(Name_i, "Byte", 0)>>,
          <<Procedure(NameMain,
              <<For(Name_i, Number(a), Number(b),
                    <<ProcCall(NamePutD, <<Variable(Name_i)>>)>>),
                Mark, Return>>)>>)

\* BYTE i  PROC Main  FOR i=a TO b DO PrintB(i) PrintE() OD  RETURN
ProgForPrint(a, b) ==
  Program(<<Global(Name_i, "Byte", 0)>>,
          <<Procedure(NameMain,
              <<For(Name_i, Number(a), Number(b),
                    <<ProcCall(NamePrintB, <<Variable(Name_i)>>),
                      ProcCall(NamePrintE, <<>>)>>),
                Return>>)>>)

\* BYTE ARRAY a(4)  PROC Main  a[0]=7 a[1]=8 PrintB(a[0]) PrintB(a[1]) PrintE() RETURN
ProgArray ==
  Program(<<Global(Name_a, "ByteArray", 4)>>,
          <<Procedure(NameMain,
              <<ArrayAssignment(Name_a, Number(0), Number(7)),
                ArrayAssignment(Name_a, Number(1), Number(8)),
                ProcCall(NamePrintB, <<ArrayAccess(Name_a, Number(0))>>),
                ProcCall(NamePrintB, <<ArrayAccess(Name_a, Number(1))>>),
                ProcCall(NamePrintE, <<>>),
                Return>>)>>)

\* PROC Main  PrintB(n) PrintE() RETURN
ProgPrintN(n) ==
  Program(<<>>,
          <<Procedure(NameMain,
              <<ProcCall(NamePrintB, <<Number(n)>>),
                ProcCall(NamePrintE, <<>>),
                Return>>)>>)

\* the spellings of the second procedure's name in ProgEntry
EntryNames == <<NameMain, NameMainLower, NameMAIN, NameMixed, NameBar>>

\* PROC Foo PutD('F') RETURN 0   PROC <name> PutD('M') RETURN
\* (a procedure that is followed by another ends in RETURN <expr>)
ProgEntry(v) ==
  Program(<<>>,
          <<Procedure(NameFoo,
              <<ProcCall(NamePutD, <<Number(70)>>), ReturnValue(Number(0))>>),
            Procedure(EntryNames[v],
              <<ProcCall(NamePutD, <<Number(77)>>), Return>>)>>)

\* Helper: PutD('h'), returning 'r'
ProcHelper(last) ==
  Procedure(NameHelper,
    <<ProcCall(NamePutD, <<Number(104)>>),
      IF last THEN Return ELSE ReturnValue(Number(114))>>)

\* Main calling Helper as a statement (expr = FALSE) or inside an expression,
\* PutD(Helper())
ProcCaller(expr, last) ==
  Procedure(NameMain,
    <<IF expr THEN ProcCall(NamePutD, <<FunctionCall(NameHelper, <<>>)>>)
              ELSE ProcCall(NameHelper, <<>>),
      Mark,
      IF last THEN Return ELSE ReturnValue(Number(0))>>)

\* v = 1: Main then Helper, statement call; 2: Helper then Main, statement
\* call; 3: no Helper; 4: Main then Helper, call in an expression; 5: Helper
\* then Main, call in an expression
ProgCall(v) ==
  CASE v = 1 -> Program(<<>>, <<ProcCaller(FALSE, FALSE), ProcHelper(TRUE)>>)
    [] v = 2 -> Program(<<>>, <<ProcHelper(FALSE), ProcCaller(FALSE, TRUE)>>)
    [] v = 3 -> Program(<<>>, <<ProcCaller(FALSE, TRUE)>>)
    [] v = 4 -> Program(<<>>, <<ProcCaller(TRUE, FALSE), ProcHelper(TRUE)>>)
    [] OTHER -> Program(<<>>, <<ProcHelper(FALSE), ProcCaller(TRUE, TRUE)>>)

\* v = 1: PROC Main  WHILE 1 DO EXIT PutD('b') OD  PutD('!') RETURN
\* v = 2: BYTE i PROC Main  FOR i=1 TO 1 DO EXIT PutD('b') OD  PutD('!') RETURN
ProgExit(v) ==
  LET body == <<Exit, ProcCall(NamePutD, <<Number(98)>>)>>
  IN  Program(<<Global(Name_i, "Byte", 0)>>,
        <<Procedure(NameMain,
            <<IF v = 1 THEN While(Number(1), body)
                       ELSE For(Name_i, Number(1), Number(1), body),
              Mark, Return>>)>>)

\* the declared types of the variables in ProgVars: scalars, a small array,
\* an array that reaches the default origin 0x4200 from 0x2000, arrays that
\* pass 0xFFFF from 0x2000, and an array whose size does not fit in 16 bits
VarTypes ==
  { [t |-> "Byte", n |-> 0], [t |-> "Card", n |-> 0],
    [t |-> "ByteArray", n |-> 4], [t |-> "ByteArray", n |-> 10000],
    [t |-> "ByteArray", n |-> 60000], [t |-> "CardArray", n |-> 30000],
    [t |-> "ByteArray", n |-> 70000] }

\* the names of the globals of ProgVars, in order, and of its local
VarNames == <<Name_a, Name_i>>

Name_x == <<120>>

\* <type> a  <type> i  PROC Main() <type> x  RETURN, with the types gs of the
\* globals and ls of the local
ProgVars(gs, ls) ==
  Program([k \in 1..Len(gs) |-> [name |-> VarNames[k], data_type |-> gs[k]]],
          <<[Procedure(NameMain, <<Return>>) EXCEPT
               !.locals = [k \in 1..Len(ls) |->
                             [name |-> Name_x, data_type |-> ls[k]]]]>>)

\* one statement of each kind that refers to the name x:
\* a = x, x = 1, a = x[0], x[0] = 1, a = @x, FOR x = 1 TO 2 DO OD,
\* WHILE x DO OD, PutD(x), RETURN (x), ^x = 1, ^a = x
RefStatements ==
  { Assignment(Name_a, Variable(Name_x)),
    Assignment(Name_x, Number(1)),
    Assignment(Name_a, ArrayAccess(Name_x, Number(0))),
    ArrayAssignment(Name_x, Number(0), Number(1)),
    Assignment(Name_a, AddressOf(Name_x)),
    For(Name_x, Number(1), Number(2), <<>>),
    While(Variable(Name_x), <<>>),
    ProcCall(NamePutD, <<Variable(Name_x)>>),
    ReturnValue(Variable(Name_x)),
    PointerAssignment(Variable(Name_x), Number(1)),
    PointerAssignment(Variable(Name_a), Variable(Name_x)) }

\* BYTE a  PROC Main() <s>  RETURN, where x is not declared
ProgUndef(s) ==
  Program(<<Global(Name_a, "Byte", 0)>>,
          <<Procedure(NameMain, <<s, Return>>)>>)

\* PROC Main() PutD(x * y) PutD('!') RETURN
ProgMul(x, y) ==
  Program(<<>>,
          <<Procedure(NameMain,
              <<ProcCall(NamePutD, <<Binary("Multiply", Number(x), Number(y))>>),
                Mark, Return>>)>>)

\* the names of the items of a source text, by position
ItemNames == <<NameMain, NameHelper, NameFoo, NameBar>>

\* the items of a source text: a global declaration, a procedure with an
\* empty body, a procedure whose body is one call
ItemKinds == {"global", "proc", "caller"}

\* the tokens of the item of kind kind named name, each line ended by its
\* newline:  BYTE name  |  PROC name() / RETURN  |  PROC name() / Bar() / RETURN
ItemTokens(kind, name) ==
  CASE kind = "global" -> <<Tok("Byte"), Identifier(name), Tok("Newline")>>
    [] kind = "proc" ->
         <<Tok("Proc"), Identifier(name), Tok("LeftParen"), Tok("RightParen"),
           Tok("Newline"), Tok("Return"), Tok("Newline")>>
    [] OTHER ->
         <<Tok("Proc"), Identifier(name), Tok("LeftParen"), Tok("RightParen"),
           Tok("Newline"), Identifier(NameBar), Tok("LeftParen"),
           Tok("RightParen"), Tok("Newline"), Tok("Return"), Tok("Newline")>>

\* Lexer::tokenize of the source text made of the items, in order
RECURSIVE SourceTokens(_, _)
SourceTokens(items, k) ==
  IF k > Len(items) THEN <<Tok("Eof")>>
  ELSE ItemTokens(items[k], ItemNames[k]) \o SourceTokens(items, k + 1)

NameGetD == <<71, 101, 116, 68>>

\* Token::Number(n)
Num(n) == [t |-> "Number", v |-> <<n>>]

NL == Tok("Newline")

\* the tokens of the source text
\*   MODULE
\*   BYTE ARRAY (4) a
\*   CARD i = 1
\*   PROC Main()
\*     Helper(2)
\*   RETURN (0)
\*   PROC Helper(BYTE x, CARD i)
\*     BYTE x
\*     IF x = 1 + 2 * 3 THEN
\*       Helper(1, x, 3)
\*     ELSE
\*       WHILE x < 2 OR NOT i DO a[0] = -x OD
\*     FI
\*     FOR x = 1 TO 3 STEP 2 DO EXIT OD
\*     ^i = @x
\*   RETURN
LongText ==
  << Tok("Module"), NL,
     Tok("Byte"), Tok("Array"), Tok("LeftParen"), Num(4), Tok("RightParen"),
     Identifier(Name_a), NL,
     Tok("Card"), Identifier(Name_i), Tok("Equal"), Num(1), NL,
     Tok("Proc"), Identifier(NameMain), Tok("LeftParen"), Tok("RightParen"), NL,
     Identifier(NameHelper), Tok("LeftParen"), Num(2), Tok("RightParen"), NL,
     Tok("Return"), Tok("LeftParen"), Num(0), Tok("RightParen"), NL,
     Tok("Proc"), Identifier(NameHelper), Tok("LeftParen"), Tok("Byte"),
     Identifier(Name_x), Tok("Comma"), Tok("Card"), Identifier(Name_i),
     Tok("RightParen"), NL,
     Tok("Byte"), Identifier(Name_x), NL,
     Tok("If"), Identifier(Name_x), Tok("Equal"), Num(1), Tok("Plus"), Num(2),
     Tok("Star"), Num(3), Tok("Then"), NL,
     Identifier(NameHelper), Tok("LeftParen"), Num(1), Tok("Comma"),
     Identifier(Name_x), Tok("Comma"), Num(3), Tok("RightParen"), NL,
     Tok("Else"), NL,
     Tok("While"), Identifier(Name_x), Tok("Less"), Num(2), Tok("Or"),
     Tok("Not"), Identifier(Name_i), Tok("Do"), Identifier(Name_a),
     Tok("LeftBracket"), Num(0), Tok("RightBracket"), Tok("Equal"),
     Tok("Minus"), Identifier(Name_x), Tok("Od"), NL,
     Tok("Fi"), NL,
     Tok("For"), Identifier(Name_x), Tok("Equal"), Num(1), Tok("To"), Num(3),
     Tok("Step"), Num(2), Tok("Do"), Tok("Exit"), Tok("Od"), NL,
     Tok("Caret"), Identifier(Name_i), Tok("Equal"), Tok("At"),
     Identifier(Name_x), NL,
     Tok("Return"), NL >>

\* the tokens put in the place of a token of LongText
Replacements ==
  { Tok("Eof"), NL, Tok("Comma"), Tok("LeftParen"), Tok("Plus"), Tok("Module"),
    Tok("Byte"), Tok("If"), Tok("Od"), Identifier(Name_a) }

\* LongText cut after its first n tokens, without its k-th token, and with
\* the token t for its k-th token
Cut(n) == SubSeq(LongText, 1, n)

Without(k) == SubSeq(LongText, 1, k - 1) \o SubSeq(LongText, k + 1, Len(LongText))

Replaced(k, t) == [LongText EXCEPT ![k] = t]

\* every token sequence of at most MaxToks tokens is parsed
MaxToks == 3

\* the tokens of the short token sequences
Alphabet ==
  { Tok("Eof"), NL, Tok("Module"), Tok("Proc"), Tok("Byte"), Tok("If"),
    Tok("Return"), Tok("LeftParen"), Tok("RightParen"), Tok("Comma"),
    Tok("Plus"), Num(1), Identifier(Name_x) }

\* the token sequences parse is run on, each ended by Eof: the long text and
\* its cuts and one-token changes, and every sequence of at most MaxToks
\* tokens of the alphabet
TokenLists ==
  {Cut(n) : n \in 0..Len(LongText)}
  \cup {Without(k) : k \in 1..Len(LongText)}
  \cup {Replaced(k, t) : k \in 1..Len(LongText), t \in Replacements}
  \cup UNION {[1..n -> Alphabet] : n \in 0..MaxToks}

\* the runtime routines' names as a source may write them
IntrinsicNames ==
  <<NamePRINTB, NamePRINTC, NamePRINTE, NamePRINT, NamePUTD, NameGETD,
    NamePrintB, NamePrintE, NamePutD, NameGetD>>

\* the arguments written in a call of the routine name
IntrinsicArgs(name) ==
  IF to_uppercase(name) \in {NamePRINTE, NameGETD} THEN <<>>
  ELSE <<Number(65)>>

\* BYTE a  PROC Main()  <call>  RETURN, the call being the statement
\* name(args) or, in an expression, a = name(args)
ProgIntrinsic(name, in_expression) ==
  Program(<<Global(Name_a, "Byte", 0)>>,
          <<Procedure(NameMain,
              <<IF in_expression
                THEN Assignment(Name_a, FunctionCall(name, IntrinsicArgs(name)))
                ELSE ProcCall(name, IntrinsicArgs(name)),
                Return>>)>>)

\* the comparison operators
Comparisons ==
  {"Equal", "NotEqual", "Less", "LessEqual", "Greater", "GreaterEqual"}

\* BYTE a  BYTE i  PROC Main()  a = x  i = y  PutD(a op i)  PutD('!')  RETURN
ProgCompare(op, x, y) ==
  Program(<<Global(Name_a, "Byte", 0), Global(Name_i, "Byte", 0)>>,
          <<Procedure(NameMain,
              <<Assignment(Name_a, Number(x)),
                Assignment(Name_i, Number(y)),
                ProcCall(NamePutD,
                         <<Binary(op, Variable(Name_a), Variable(Name_i))>>),
                Mark, Return>>)>>)

\* BYTE a  PROC Main()  a = l op r  RETURN, op being Add or Subtract
ProgArith(op, l, r) ==
  Program(<<Global(Name_a, "Byte", 0)>>,
          <<Procedure(NameMain,
              <<Assignment(Name_a, Binary(op, Number(l), Number(r))),
                Return>>)>>)

\* PutD of the character c
Put(c) == ProcCall(NamePutD, <<Number(c)>>)

\* the IF statements of ProgIf, with conditions c1 and c2:
\*  1  IF c1 THEN A FI
\*  2  IF c1 THEN A ELSE B FI
\*  3  IF c1 THEN IF c2 THEN C ELSE D FI ELSE IF c2 THEN E FI FI
\*  4  IF c1 THEN IF c2 THEN C FI A ELSE B IF c2 THEN E ELSE F FI FI
\*  5  IF c1 THEN IF c2 THEN IF c1 THEN C ELSE D FI FI ELSE B FI
\* where a letter stands for PutD of it
IfShape(v, c1, c2) ==
  CASE v = 1 -> If(Number(c1), <<Put(65)>>)
    [] v = 2 -> IfElse(Number(c1), <<Put(65)>>, <<Put(66)>>)
    [] v = 3 -> IfElse(Number(c1),
                       <<IfElse(Number(c2), <<Put(67)>>, <<Put(68)>>)>>,
                       <<If(Number(c2), <<Put(69)>>)>>)
    [] v = 4 -> IfElse(Number(c1),
                       <<If(Number(c2), <<Put(67)>>), Put(65)>>,
                       <<Put(66), IfElse(Number(c2), <<Put(69)>>, <<Put(70)>>)>>)
    [] OTHER -> IfElse(Number(c1),
                       <<If(Number(c2),
                            <<IfElse(Number(c1), <<Put(67)>>, <<Put(68)>>)>>)>>,
                       <<Put(66)>>)

IfShapes == 1..5

\* PROC Main()  <IF statement v>  PutD('!')  RETURN
ProgIf(v, c1, c2) ==
  Program(<<>>, <<Procedure(NameMain, <<IfShape(v, c1, c2), Mark, Return>>)>>)

\* PROC Main()  PutD(x op (y op2 z))  PutD('!')  RETURN
ProgNested(op, x, y, z) ==
  Program(<<>>,
          <<Procedure(NameMain,
              <<ProcCall(NamePutD,
                  <<Binary(op, Number(x), Binary("Add", Number(y), Number(z)))>>),
                Mark, Return>>)>>)

\* PROC Main()  PutD(x OR y)  PutD('!')  RETURN
ProgOr(x, y) ==
  Program(<<>>,
          <<Procedure(NameMain,
              <<ProcCall(NamePutD, <<Binary("Or", Number(x), Number(y))>>),
                Mark, Return>>)>>)

\* the index expression of ProgStore: i, or i + 1
IndexOf(plus_one) ==
  IF plus_one THEN Binary("Add", Variable(Name_i), Number(1))
  ELSE Variable(Name_i)

\* BYTE ARRAY a(4)  BYTE i
\* PROC Main()  i = x  a[index] = v  PutD(a[index])  PutD('!')  RETURN
ProgStore(plus_one, x, v) ==
  Program(<<Global(Name_a, "ByteArray", 4), Global(Name_i, "Byte", 0)>>,
          <<Procedure(NameMain,
              <<Assignment(Name_i, Number(x)),
                ArrayAssignment(Name_a, IndexOf(plus_one), Number(v)),
                ProcCall(NamePutD, <<ArrayAccess(Name_a, IndexOf(plus_one))>>),
                Mark, Return>>)>>)

\* BYTE a  BYTE i  CARD x
\* PROC Main()  i = 5  a = v  x = c  PutD('!')  RETURN
ProgAssign(v, c) ==
  Program(<<Global(Name_a, "Byte", 0), Global(Name_i, "Byte", 0),
            Global(Name_x, "Card", 0)>>,
          <<Procedure(NameMain,
              <<Assignment(Name_i, Number(5)),
                Assignment(Name_a, Number(v)),
                Assignment(Name_x, Number(c)),
                Mark, Return>>)>>)

\* the types of the local of ProgParams
LocalTypes == <<[t |-> "Byte", n |-> 0], [t |-> "Card", n |-> 0]>>

\* the body statements of Helper in ProgParams: the statements that refer
\* to x, and i = 1, which does not
ParamStatements == RefStatements \cup {Assignment(Name_i, Number(1))}

\* BYTE a
\* PROC Helper(BYTE x)  <lt> i  <s>  RETURN
\* PROC Main()  a = i  RETURN
ProgParams(s, lt) ==
  Program(<<Global(Name_a, "Byte", 0)>>,
          <<[Procedure(NameHelper, <<s, Return>>) EXCEPT
               !.params = <<[name |-> Name_x,
                             data_type |-> [t |-> "Byte", n |-> 0]]>>,
               !.locals = <<[name |-> Name_i, data_type |-> lt]>>],
            Procedure(NameMain,
              <<Assignment(Name_a, Variable(Name_i)), Return>>)>>)

\* PROC Main RETURN
ProgEmpty == Program(<<>>, <<Procedure(NameMain, <<Return>>)>>)


(***************************************************************************)
(* Bounds.                                                                 *)
(***************************************************************************)
\* the loop bounds of the FOR programs are 0..MaxSmall and 255-MaxSmall..255
MaxSmall == 2

\* the console log holds at most MaxOut bytes
MaxOut == 12

\* strings handed to Print have at most MaxStr characters
MaxStr == 3

\* the 16-bit operands of Multiply are 0..MaxSmallWord and their mirror images
MaxSmallWord == 3

\* at most MaxIn port reads are followed
MaxIn == 4
MaxItems == 3

\* the divisors div8 is run with for every dividend: those of PrintB, a power
\* of two and the largest
Divisors == {10, 16, 100, 128, 255}

ByteVals == (0..MaxSmall) \cup ((255 - MaxSmall)..255)

WordVals == (0..MaxSmallWord) \cup {255, 256, 32768}
              \cup ((65535 - MaxSmallWord)..65535)

\* strings over {'A', 'B'} of length 0..MaxStr
Strings == UNION {[1..n -> {65, 66}] : n \in 0..MaxStr}

(***************************************************************************)
(* The state machine.  src is the input: the parsed program, the --org     *)
(* origin, whether the build checks overflow, and how the image is run     *)
(* ("boot", or the runtime routine called with registers a, b, hl, de and  *)
(* the zero-terminated string str in memory at hl).                        *)
(***************************************************************************)
Scenario(kind, p1, p2, org, checks, program) ==
  [kind |-> kind, p1 |-> p1, p2 |-> p2, org |-> org, checks |-> checks,
   program |-> program, run |-> "boot", a |-> 0, b |-> 0, hl |-> 0,
   de |-> 0, str |-> <<>>, items |-> <<>>, tokens |-> <<>>]

\* the source text made of the items, still to be parsed
Text(items) ==
  [Scenario("parse", 0, 0, \h4200, TRUE, Program(<<>>, <<>>)) EXCEPT
     !.items = items, !.tokens = SourceTokens(items, 1)]

Call(routine, a, hl, de, str) ==
  [kind |-> routine, p1 |-> 0, p2 |-> 0, org |-> \h4200, checks |-> TRUE,
   program |-> ProgEmpty, run |-> routine, a |-> a, b |-> 0, hl |-> hl,
   de |-> de, str |-> str, items |-> <<>>, tokens |-> <<>>]

\* div8 called with A = a and B = b
CallDiv8(a, b) == [Call("Div8", a, 0, 0, <<>>) EXCEPT !.b = b]

\* programs compiled at the default origin 0x4200 (main.rs:29) and booted
ProgScenarios ==
  {Scenario("for", a, b, \h4200, TRUE, ProgFor(a, b)) : a \in ByteVals, b \in ByteVals}
  \cup {Scenario("forprint", ab[1], ab[2], \h4200, TRUE, ProgForPrint(ab[1], ab[2])) :
          ab \in {<<1, 3>>, <<1, 1>>}}
  \cup {Scenario("array", 0, 0, \h4200, TRUE, ProgArray)}
  \cup {Scenario("printn", n, 0, \h4200, TRUE, ProgPrintN(n)) : n \in 0..9}
  \cup {Scenario("entry", v, 0, \h4200, TRUE, ProgEntry(v)) : v \in 1..5}
  \cup {Scenario("call", v, 0, \h4200, TRUE, ProgCall(v)) : v \in 1..5}
  \cup {Scenario("exit", v, 0, \h4200, TRUE, ProgExit(v)) : v \in 1..2}
  \cup {Scenario("org", 0, 0, org, checks, ProgPrintN(7)) :
          org \in {\h0000, \h8000, \hFF00, \hFFA0, \hFFFE}, checks \in BOOLEAN}
  \cup {Text(items) : items \in UNION {[1..n -> ItemKinds] : n \in 1..MaxItems}}
  \cup {Scenario("intrinsic", k, f, \h4200, TRUE,
                   ProgIntrinsic(IntrinsicNames[k], f = 1)) :
          k \in 1..Len(IntrinsicNames), f \in {0, 1}}
  \cup {Scenario("compare", x, y, \h4200, TRUE, ProgCompare(op, x, y)) :
          op \in Comparisons, x \in ByteVals, y \in ByteVals}
  \cup {Scenario("mixed", b, w, \h4200, TRUE, ProgArith(op, b, w)) :
          op \in {"Add", "Subtract"}, b \in ByteVals, w \in WordVals \ (0..255)}
  \cup {Scenario("mixed", w, b, \h4200, TRUE, ProgArith(op, w, b)) :
          op \in {"Add", "Subtract"}, b \in ByteVals, w \in WordVals \ (0..255)}
  \cup {Scenario("if", c1, c2, \h4200, TRUE, ProgIf(v, c1, c2)) :
          v \in IfShapes, c1 \in ByteVals, c2 \in ByteVals}
  \cup {Scenario("nested", x, y, \h4200, TRUE, ProgNested(op, x, y, 3)) :
          op \in {"Add", "Subtract", "Equal"},
          x \in 0..(MaxSmall + 4), y \in 0..MaxSmall}
  \cup {Scenario("or", x, y, \h4200, TRUE, ProgOr(x, y)) :
          x \in ByteVals, y \in ByteVals}
  \cup {Scenario("store", x, v, \h4200, TRUE, ProgStore(plus_one, x, v)) :
          plus_one \in BOOLEAN, x \in 0..MaxSmall, v \in {7, 200}}
  \cup {Scenario("assign", v, c, \h4200, TRUE, ProgAssign(v, c)) :
          v \in {7, 300}, c \in ByteVals \ {0}}
  \cup {Scenario("params", k, 0, \h4200, checks,
                   ProgParams(s, LocalTypes[k])) :
          s \in ParamStatements, k \in 1..Len(LocalTypes),
          checks \in BOOLEAN}
  \cup {Scenario("top", 0, 0, \hFF90, checks, ProgPrintN(7)) :
          checks \in BOOLEAN}
  \cup {Scenario("mul", x, y, \h4200, TRUE, ProgMul(x, y)) :
          x \in ByteVals, y \in ByteVals}
  \cup {Scenario("undef", 0, 0, \h4200, checks, ProgUndef(s)) :
          s \in RefStatements, checks \in BOOLEAN}
  \cup {Scenario("vars", 0, 0, \h4200, checks, ProgVars(gs, ls)) :
          gs \in UNION {[1..n -> VarTypes] : n \in 0..2},
          ls \in UNION {[1..n -> VarTypes] : n \in 0..1},
          checks \in BOOLEAN}

\* token sequences, still to be parsed
TokenScenarios ==
  {[Scenario("tokens", 0, 0, \h4200, TRUE, Program(<<>>, <<>>)) EXCEPT
      !.tokens = list \o <<Tok("Eof")>>] : list \in TokenLists}

\* runtime routines called directly
RtScenarios ==
  {Call("PrintB", a, 0, 0, <<>>) : a \in Byte}
  \cup {Call("Print", 0, \h3000, 0, str) : str \in Strings}
  \cup {Call("Multiply", 0, x, y, <<>>) : x \in WordVals, y \in WordVals}
  \cup {CallDiv8(a, b) : a \in Byte, b \in Divisors}
  \cup {CallDiv8(a, b) : a \in ByteVals, b \in 1..MaxSmall}
  \cup {Call("GetD", 0, 0, 0, <<>>)}

\* the machine before the image is started
Reset ==
  [ r |-> [i \in Regs |-> 0], z |-> FALSE, c |-> FALSE,
    sp |-> \hFFFF, pc |-> 0, ram |-> <<>>, out |-> <<>>, ins |-> <<>>,
    st |-> "off" ]

NoSyms ==
  [ status |-> "none", err |-> "none", code_start |-> 0,
    runtime_code |-> <<>>, program_code |-> <<>>,
    symbols |-> generate_runtime(0).symbols,
    procedures |-> <<>>, globals |-> <<>>, pc |-> 0, patches |-> <<>>,
    locals |-> <<>> ]

InitWith(S) ==
  /\ src \in S
  /\ phase = (IF src.kind \in {"parse", "tokens"} THEN "text" ELSE "source")
  /\ binary = <<>>
  /\ syms = NoSyms
  /\ m = Reset

Init == InitWith(ProgScenarios)

InitRt == InitWith(RtScenarios)

InitParser == InitWith(TokenScenarios)

\* main: compile src.program at src.org
\* the outcome res of compile: exit status and the binary written
Built(res) ==
  /\ phase' = (CASE res.status = "ok" -> "built"
                 [] res.status = "error" -> "failed"
                 [] OTHER -> "panicked")
  /\ binary' = res.binary
  /\ syms' = [ status |-> res.status, err |-> res.err,
               code_start |-> res.code_start,
               runtime_code |-> res.runtime_code,
               program_code |-> res.program_code,
               symbols |-> res.symbols,
               procedures |-> res.procedures,
               globals |-> res.globals,
               pc |-> res.pc,
               patches |-> res.patches,
               locals |-> res.locals ]

\* the outcome r of parse: the program, or exit(1) after the error
Parsed(r) ==
  /\ phase' = (IF r.err = "" THEN "source" ELSE "failed")
  /\ src' = (IF r.err = "" THEN [src EXCEPT !.program = r.val] ELSE src)
  /\ syms' = (IF r.err = "" THEN syms
              ELSE [NoSyms EXCEPT !.status = "error", !.err = r.err])

\* main: parse the tokens of the source text
Parse ==
  /\ phase = "text"
  /\ Parsed(parse(src.tokens))
  /\ UNCHANGED <<binary, m>>

Compile ==
  /\ phase = "source"
  /\ Built(compile(src.org, src.program, src.checks))
  /\ UNCHANGED <<src, m>>

\* the binary is loaded at its origin and the Z80 starts at its first byte
Boot ==
  /\ phase = "built"
  /\ src.run = "boot"
  /\ src.org + Len(binary) <= 65536
  /\ phase' = "running"
  /\ m' = [Reset EXCEPT !.pc = src.org, !.st = "run"]
  /\ UNCHANGED <<src, binary, syms>>

\* the address a routine called by Invoke returns to
ReturnTo == IF src.run = "boot" THEN -1 ELSE \h0100

\* the entry address of the routine src.run
Entry ==
  CASE src.run = "PrintB" -> syms.symbols.print_b
    [] src.run = "Print" -> syms.symbols.print
    [] src.run = "Multiply" -> syms.symbols.multiply
    [] src.run = "GetD" -> syms.symbols.get_d
    [] OTHER -> syms.symbols.div8

\* str, zero-terminated, at address at
RECURSIVE StoreString(_, _, _)
StoreString(ram, at, str) ==
  IF str = <<>> THEN Poke(ram, at, 0)
  ELSE StoreString(Poke(ram, at, Head(str)), W16(at + 1), Tail(str))

\* a caller CALLs the routine src.run with its inputs in A, B, HL and DE
Invoke ==
  /\ phase = "built"
  /\ src.run # "boot"
  /\ phase' = "running"
  /\ LET m0 == [Reset EXCEPT !.r[RegA] = src.a, !.r[RegB] = src.b,
                             !.r[RegH] = Hi(src.hl), !.r[RegL] = Lo(src.hl),
                             !.r[RegD] = Hi(src.de), !.r[RegE] = Lo(src.de),
                             !.ram = StoreString(<<>>, src.hl, src.str)]
     IN  m' = [Push16(m0, ReturnTo) EXCEPT !.pc = Entry, !.st = "run"]
  /\ UNCHANGED <<src, binary, syms>>

\* the bytes an IN may read at the next instruction: status bytes with bit 0
\* clear (0, 2) and set (1, 3), and a character
Inputs == {0, 1, 2, 3, 65}

\* the Z80 executes one instruction
Step ==
  /\ phase = "running"
  /\ m.st = "run"
  /\ \E inp \in Inputs : m' = Exec(m, src.org, binary, ReturnTo, inp, MaxOut, MaxIn)
  /\ UNCHANGED <<src, phase, binary, syms>>

Next == Parse \/ Compile \/ Boot \/ Step

NextRt == Compile \/ Invoke \/ Step

NextParser == Parse

\* a started Z80 keeps executing instructions; nothing obliges anyone to
\* compile or to start an image
Spec == Init /\ [][Next]_vars /\ WF_vars(Step)

SpecRt == InitRt /\ [][NextRt]_vars /\ WF_vars(Step)

\* the parser alone, on token sequences
SpecParser == InitParser /\ [][NextParser]_vars

\* the machine has stopped
Stopped == phase = "running" /\ m.st # "run"

\* the byte and the word of the program code at absolute address a
CodeByte(a) == syms.program_code[W16(a - syms.code_start) + 1]

CodeWord(a) == CodeByte(a) + 256 * CodeByte(a + 1)

\* s is an initial part of t
IsPrefix(s, t) == Len(s) <= Len(t) /\ s = SubSeq(t, 1, Len(s))

(***************************************************************************)
(* C1.  A successful compile writes JP e, then the runtime, then the       *)
(* program code, with e = org + 3 + len(runtime).                          *)
(***************************************************************************)
\* C1: for every successful compile the binary is [0xC3, lo(e), hi(e)]
\* followed by the runtime bytes and the program bytes, e = org + 3 +
\* len(runtime); its length is 3 + len(runtime) + len(program_code); the byte
\* loaded at address e is the first byte of the program code, the CALL of
\* the entry stub.
C1_BinaryLayout ==
  phase \in {"built", "running"} =>
    LET rt == generate_runtime(W16(src.org + 3)).code
        e == src.org + 3 + Len(rt)
    IN  /\ binary = <<\hC3, Lo(e), Hi(e)>> \o rt \o syms.program_code
        /\ Len(binary) = 3 + Len(rt) + Len(syms.program_code)
        /\ binary[e - src.org + 1] = syms.program_code[1]
        /\ syms.program_code[1] = \hCD
        /\ src.org + Len(binary) <= 65536 =>
             Read(Reset, src.org, binary, e) = syms.program_code[1]

\* a compile at a non-default origin succeeded and its binary starts with JP
C1_Witness ==
  /\ phase = "built"
  /\ src.kind = "org" /\ src.org = \h8000
  /\ binary[1] = \hC3 /\ Len(binary) > 3 + Len(syms.runtime_code)

(***************************************************************************)
(* C2.  The entry stub.                                                    *)
(***************************************************************************)
\* the positions of the procedures named Main in any letter case
MainLike(procs) ==
  {i \in 1..Len(procs) : to_uppercase(procs[i].name) = NameMAIN}

\* C2: after generate succeeds on a program with at least one procedure, the
\* operand of the CALL at the program origin is the entry address of the
\* procedure named Main in any letter case when there is one, and of the
\* first procedure otherwise; the byte after the CALL is HALT.
C2_EntryIsMain ==
  (phase = "built" /\ src.program.procedures # <<>>) =>
    LET procs == src.program.procedures
        i == IF MainLike(procs) # {} THEN CHOOSE j \in MainLike(procs) : TRUE
             ELSE 1
    IN  /\ CodeByte(syms.code_start) = \hCD
        /\ CodeWord(syms.code_start + 1) = syms.procedures[procs[i].name]
        /\ CodeByte(syms.code_start + 3) = \h76

(***************************************************************************)
(* C3.  Calls to user procedures.  In the "call" programs the call is the  *)
(* first instruction of Main.                                              *)
(***************************************************************************)
\* C3: the operand of the CALL emitted for a call to a user procedure is the
\* entry address of that procedure when it is defined anywhere in the
\* program, before or after the caller; when it is not defined generate
\* fails with UndefinedProcedure; no CALL 0x0000 remains in a successful
\* output.
C3_CallsResolved ==
  (src.kind = "call" /\ phase # "source") =>
    IF \E i \in 1..Len(src.program.procedures) :
         src.program.procedures[i].name = NameHelper
    THEN /\ phase = "built" \/ phase = "running"
         /\ CodeByte(syms.procedures[NameMain]) = \hCD
         /\ CodeWord(syms.procedures[NameMain] + 1) = syms.procedures[NameHelper]
    ELSE phase = "failed" /\ syms.err = "UndefinedProcedure"

(***************************************************************************)
(* C4, C5.  FOR loops.  The "for" programs write the induction variable    *)
(* to the console in the body and '!' after the loop.                      *)
(***************************************************************************)
\* a, a+1, ..., b
Range(a, b) == IF a > b THEN <<>> ELSE [i \in 1..(b - a + 1) |-> a + i - 1]

\* the decimal text PrintB is documented to write in runtime.rs: the
\* hundreds digit when it is not zero, the tens digit, the ones digit
DecimalB(a) ==
  (IF a >= 100 THEN <<48 + a \div 100>> ELSE <<>>)
    \o <<48 + ((a \div 10) % 10), 48 + (a % 10)>>

\* C4: the code of FOR i = a TO b DO body OD runs body b - a + 1 times with
\* i = a, ..., b in order (zero times for a > b) and then goes on with the
\* statement after OD; FOR i=1 TO 3 with body PrintB(i) PrintE() visits
\* 1, 2, 3 and terminates.
C4_ForVisitsRange ==
  /\ (src.kind = "for" /\ phase = "running") =>
       /\ m.st \in {"run", "halt"}
       /\ IsPrefix(m.out, Range(src.p1, src.p2) \o <<33>>)
       /\ m.st = "halt" => m.out = Range(src.p1, src.p2) \o <<33>>
  /\ (src.kind = "forprint" /\ phase = "running") =>
       /\ m.st \in {"run", "halt"}
       /\ m.st = "halt" =>
            Cardinality({k \in 1..Len(m.out) : m.out[k] = 10})
              = src.p2 - src.p1 + 1

\* C5: a FOR loop whose start and end are the same byte constant runs its
\* body exactly once and then reaches the statement after the loop.
C5_ForOnce ==
  (src.kind = "for" /\ src.p1 = src.p2 /\ phase = "running") =>
     /\ m.st \in {"run", "halt"}
     /\ IsPrefix(m.out, <<src.p1, 33>>)
     /\ m.st = "halt" => m.out = <<src.p1, 33>>

(***************************************************************************)
(* C6.  EXIT.  In the "exit" programs EXIT is the first statement of the   *)
(* loop body: of WHILE 1 (p1 = 1) or of FOR i = 1 TO 1 (p1 = 2).           *)
(***************************************************************************)
\* the address of the first body instruction and of the operand of the
\* loop's own exit branch, counted from the loop's first instruction:
\* WHILE 1: LD A,1; AND A; JP Z,exit                        (codegen.rs:700-708)
\* FOR: LD A,1; LD (i),A; LD A,(i); LD B,A; LD A,1; LD C,A; LD A,B; CP C;
\*      JP Z,cont; JP C,cont; JP exit                       (codegen.rs:731-756)
ExitBodyAt == syms.procedures[NameMain] + (IF src.p1 = 1 THEN 6 ELSE 23)

ExitBranchOperandAt == syms.procedures[NameMain] + (IF src.p1 = 1 THEN 4 ELSE 21)

\* C6: every EXIT inside a WHILE or FOR loop emits a JP whose operand is the
\* address of the first instruction after the innermost enclosing loop, the
\* address the loop's own exit branch is patched to; none is dropped or left
\* with operand 0x0000.
C6_ExitJumpsPastLoop ==
  (src.kind = "exit" /\ phase = "built") =>
     /\ CodeByte(ExitBodyAt) = \hC3
     /\ CodeWord(ExitBodyAt + 1) = CodeWord(ExitBranchOperandAt)
     /\ CodeWord(ExitBodyAt + 1) # 0

C8_OneDigit ==
  /\ (src.kind = "printn" /\ Stopped) =>
        m.st = "halt" /\ m.out = <<48 + src.p1, 13, 10>>
  /\ (src.kind = "array" /\ Stopped) =>
        m.st = "halt" /\ m.out = <<55, 56, 13, 10>>

(***************************************************************************)
(* C9.  Print.                                                             *)
(***************************************************************************)
\* C9: Print called with HL at a zero-terminated string of length n >= 0
\* writes exactly those n bytes in order to the console-data port and
\* returns when it reads the zero byte; it writes nothing for the empty
\* string and never stops before the terminator.
C9_PrintWholeString ==
  (src.run = "Print" /\ phase = "running") =>
     /\ m.st \in {"run", "returned"}
     /\ IsPrefix(m.out, src.str)
     /\ m.st = "returned" => m.out = src.str

(***************************************************************************)
(* C10.  Multiply.                                                         *)
(***************************************************************************)
\* C10: for 16-bit inputs HL = x and DE = y, Multiply terminates and returns
\* with HL = (x * y) mod 65536.
C10_MultiplyLow16 ==
  (src.run = "Multiply" /\ phase = "running") =>
     /\ m.st \in {"run", "returned"}
     /\ m.st = "returned" => HL(m) = (src.hl * src.de) % 65536

(***************************************************************************)
(* C11.  div8.                                                             *)
(***************************************************************************)
\* the length in bytes of the instruction with first byte op
OpLen(op) ==
  CASE op \in {\h01, \h11, \h21, \h31, \h22, \h2A, \h32, \h3A,
               \hC3, \hCD, \hC2, \hCA, \hD2, \hDA} -> 3
    [] op \in {\h06, \h0E, \h16, \h1E, \h26, \h2E, \h36, \h3E,
               \hC6, \hCE, \hD6, \hDE, \hE6, \hEE, \hF6, \hFE,
               \h18, \h20, \h28, \h30, \h38, \h10,
               \hD3, \hDB, \hCB, \hED} -> 2
    [] OTHER -> 1

\* the offsets (from 0) at which the instructions of code start, from
\* offset i on
RECURSIVE Boundaries(_, _)
Boundaries(code, i) ==
  IF i >= Len(code) THEN {}
  ELSE {i} \cup Boundaries(code, i + OpLen(code[i + 1]))

\* the offset in div8 that its closing JR jumps to; the JR is the fourth
\* byte from the end (JR e; LD A,D; RET)
Div8JumpTarget == (Len(RtDiv8) - 2) + Signed8(RtDiv8[Len(RtDiv8) - 2])

\* C11: for every dividend A in 0..255 and divisor B in 1..255, div8
\* terminates and returns with A = floor(A_in / B) and C = A_in mod B; the
\* backward jump of its loop lands on an instruction boundary inside the
\* loop, and execution never leaves the instruction boundaries.
C11_Div8 ==
  /\ [](  (src.run = "Div8" /\ phase = "running") =>
            /\ m.st \in {"run", "returned"}
            /\ Div8JumpTarget \in Boundaries(RtDiv8, 0)
            /\ Div8JumpTarget >= 3 /\ Div8JumpTarget < Len(RtDiv8) - 4
            /\ m.pc = ReturnTo
                 \/ m.pc - syms.symbols.div8 \in Boundaries(RtDiv8, 0)
            /\ m.st = "returned" =>
                 /\ m.r[RegA] = src.a \div src.b
                 /\ m.r[RegC] = src.a % src.b
                 /\ m.sp = \hFFFF )
  /\ ((src.run = "Div8" /\ phase = "running") ~> m.st = "returned")

\* div8(255, 16) has returned 15 remainder 15
C11_Witness ==
  /\ src.run = "Div8" /\ src.a = 255 /\ src.b = 16
  /\ phase = "running" /\ m.st = "returned"
  /\ m.r[RegA] = 15 /\ m.r[RegC] = 15

(***************************************************************************)
(* C12.  GetD.                                                             *)
(***************************************************************************)
\* the port read e = <<port, byte>> is a status read that found bit 0 set
ReadyRead(e) == e[1] = CONSOLE_STATUS /\ e[2] % 2 = 1

\* C12: GetD never reads the console-data port and never returns while the
\* last status read has bit 0 clear; it polls the status port again until
\* bit 0 is set, then reads the data port exactly once and returns that byte
\* in A; so it returns whenever the status bit becomes set.
C12_GetDPolls ==
  /\ [](  (src.run = "GetD" /\ phase = "running") =>
            /\ m.st \in {"run", "returned", "infull"}
            /\ \A k \in 1..Len(m.ins) :
                 /\ m.ins[k][1] \in {CONSOLE_STATUS, CONSOLE_DATA}
                 /\ m.ins[k][1] = CONSOLE_DATA =>
                      k = Len(m.ins) /\ k > 1 /\ ReadyRead(m.ins[k - 1])
                 /\ (ReadyRead(m.ins[k]) /\ k < Len(m.ins)) =>
                      m.ins[k + 1][1] = CONSOLE_DATA
            /\ m.st = "returned" =>
                 /\ m.ins # <<>>
                 /\ m.ins[Len(m.ins)][1] = CONSOLE_DATA
                 /\ m.r[RegA] = m.ins[Len(m.ins)][2]
                 /\ m.sp = \hFFFF )
  /\ ((src.run = "GetD" /\ phase = "running")
        ~> (m.st = "returned" \/ m.st = "infull"))
  /\ ((src.run = "GetD" /\ phase = "running" /\ m.ins # <<>>
         /\ ReadyRead(m.ins[Len(m.ins)]) /\ Len(m.ins) < MaxIn)
        ~> m.st = "returned")

\* GetD has polled twice, found the status ready and returned 'A'
C12_Witness ==
  /\ src.run = "GetD" /\ phase = "running" /\ m.st = "returned"
  /\ m.ins = << <<CONSOLE_STATUS, 2>>, <<CONSOLE_STATUS, 1>>,
                <<CONSOLE_DATA, 65>> >>
  /\ m.r[RegA] = 65

(***************************************************************************)
(* C13, C14.  Where variables are put.                                     *)
(***************************************************************************)
\* the sum of the declared byte sizes of the first k of the globals gs
RECURSIVE SumSizes(_, _)
SumSizes(gs, k) ==
  IF k = 0 THEN 0 ELSE SumSizes(gs, k - 1) + size(gs[k].data_type)

\* the storage ranges [a1, a1 + n1) and [a2, a2 + n2) have a byte in common
Overlap(a1, n1, a2, n2) == a1 < a2 + n2 /\ a2 < a1 + n1

\* C13: for every list of global declarations generate gives the k-th
\* global the address 0x2000 plus the sum of the declared sizes of the
\* globals before it, so the storage ranges lie in [0x2000, 0x2000 + sum of
\* sizes) and are pairwise disjoint, also for arrays whose size does not fit
\* in 16 bits or whose sizes sum past 0xFFFF.
C13_GlobalAddresses ==
  (src.kind = "vars" /\ phase = "built") =>
    LET gs == src.program.globals
        addr(k) == syms.globals[gs[k].name].address
    IN  /\ \A k \in 1..Len(gs) : addr(k) = \h2000 + SumSizes(gs, k - 1)
        /\ \A j, k \in 1..Len(gs) :
             j # k => ~Overlap(addr(j), size(gs[j].data_type),
                               addr(k), size(gs[k].data_type))

\* C14: for every successful compile no variable's storage range, of a
\* global or of a procedure local allocated after the globals, meets the
\* loaded image [org, org + len(binary)), and none lies below 0x2000.
C14_VariablesClearOfImage ==
  phase = "built" =>
    \A v \in DOMAIN syms.globals :
       /\ syms.globals[v].address >= \h2000
       /\ ~Overlap(syms.globals[v].address, size(syms.globals[v].data_type),
                   src.org, Len(binary))

\* C15: a reference to an undeclared name in any statement kind (expression
\* operand, array name, address-of operand, assignment target, FOR variable,
\* pointer store) makes generate return UndefinedVariable, and the driver
\* exits non-zero without writing a binary.
C15_UndeclaredRejected ==
  (src.kind = "undef" /\ phase # "source") =>
    /\ phase = "failed"
    /\ syms.err = "UndefinedVariable"
    /\ binary = <<>>

(***************************************************************************)
(* C16.  Multiplication in an expression.                                  *)
(***************************************************************************)
\* C16: the code for a*b is a CALL to the runtime Multiply routine, its
\* operand the address of the symbol multiply and never 0x0000, with the
\* operands where the routine expects them, and the product is the result
\* of the expression: PutD(x * y) PutD('!') writes the low byte of x*y and
\* then '!'.  The CALL is the seventh byte of Main, after LD A,x; LD B,A;
\* LD A,y; LD C,A.
C16_MultiplyCallsRuntime ==
  /\ (src.kind = "mul" /\ phase \in {"built", "running"}) =>
        /\ CodeByte(syms.procedures[NameMain] + 6) = \hCD
        /\ CodeWord(syms.procedures[NameMain] + 7) = syms.symbols.multiply
  /\ (src.kind = "mul" /\ Stopped) =>
        m.st = "halt" /\ m.out = <<(src.p1 * src.p2) % 256, 33>>

(***************************************************************************)
(* C17.  Declarations and procedures in any order.                         *)
(***************************************************************************)
\* the items of the source text with their names
SourceItems ==
  [k \in 1..Len(src.items) |-> [kind |-> src.items[k], name |-> ItemNames[k]]]

IsGlobalItem(it) == it.kind = "global"

IsProcItem(it) == it.kind # "global"

\* the declarations of the source text, in source order
DeclaredGlobals ==
  LET gs == SelectSeq(SourceItems, IsGlobalItem)
  IN  [k \in 1..Len(gs) |-> Global(gs[k].name, "Byte", 0)]

\* the procedures of the source text, in source order
DeclaredProcedures ==
  LET ps == SelectSeq(SourceItems, IsProcItem)
  IN  [k \in 1..Len(ps) |->
         Procedure(ps[k].name,
                   IF ps[k].kind = "proc" THEN <<Return>>
                   ELSE <<ProcCall(NameBar, <<>>), Return>>)]

\* C17: a source text of global declarations and procedures in any order,
\* each procedure ending in a bare RETURN on its own line, parses, and the
\* program has the globals and the procedures in source order; another
\* PROC or a global declaration may follow a procedure's RETURN.
C17_ParsesInOrder ==
  (src.kind = "parse" /\ phase # "text") =>
    /\ syms.err \notin {"ParserError", "UnexpectedToken", "Unmodelled"}
    /\ src.program.globals = DeclaredGlobals
    /\ src.program.procedures = DeclaredProcedures

(***************************************************************************)
(* C18.  Calls of the runtime routines.                                    *)
(***************************************************************************)
\* the code of Main, the last procedure
MainCode ==
  SubSeq(syms.program_code, syms.procedures[NameMain] - syms.code_start + 1,
         Len(syms.program_code))

\* the CALL instructions of MainCode: the bytes of the programs of
\* ProgIntrinsic hold 0xCD only as the CALL opcode
CallsAt == {i \in 1..(Len(MainCode) - 2) : MainCode[i] = \hCD}

\* C18: a call named PRINTB, PRINTC, PRINTE, PRINT, PUTD or GETD in any
\* letter case, as a statement or as a function call in an expression
\* (a = GetD()), is a CALL to the routine's runtime symbol with no PUSH AF
\* before it and no POP BC after it.
C18_IntrinsicCalls ==
  (src.kind = "intrinsic" /\ phase \in {"built", "running"}) =>
    /\ CallsAt # {}
    /\ \A i \in CallsAt :
         /\ MainCode[i + 1] + 256 * MainCode[i + 2]
              = get_function(syms.symbols, IntrinsicNames[src.p1]).addr
         /\ i > 1 => MainCode[i - 1] # \hF5
         /\ i + 3 <= Len(MainCode) => MainCode[i + 3] # \hC1

(***************************************************************************)
(* C19.  Comparisons of bytes.                                             *)
(***************************************************************************)
\* the relation op between x and y
Holds(op, x, y) ==
  CASE op = "Equal" -> x = y
    [] op = "NotEqual" -> x # y
    [] op = "Less" -> x < y
    [] op = "LessEqual" -> x <= y
    [] op = "Greater" -> x > y
    [] OTHER -> x >= y

\* the comparison operator of ProgCompare
ComparedBy == src.program.procedures[1].body[3].args[1].k

\* the value the comparison of ProgCompare is to leave in A
Truth == IF Holds(ComparedBy, src.p1, src.p2) THEN 1 ELSE 0

\* the offset in MainCode of the CALL put_d that follows the comparison
AfterCompare == (CHOOSE i \in CallsAt : \A j \in CallsAt : i <= j) - 1

\* the relative jumps of MainCode land on instruction boundaries of it
JumpsOnBoundaries ==
  \A i \in Boundaries(MainCode, 0) :
     MainCode[i + 1] \in {\h18, \h20, \h28, \h30, \h38, \h10} =>
       i + 2 + Signed8(MainCode[i + 2]) \in Boundaries(MainCode, 0)

\* C19: for byte operands x and y and each of = <> < <= > >= the code
\* leaves A = 1 when the relation holds and A = 0 otherwise, never another
\* value, and every relative jump in it lands on an instruction boundary:
\* a = x  i = y  PutD(a op i)  PutD('!') reaches the CALL of PutD with the
\* truth value in A, writes it and '!', and halts.
C19_CompareBytes ==
  /\ []( (src.kind = "compare" /\ phase = "running") =>
           /\ m.st \in {"run", "halt"}
           /\ JumpsOnBoundaries
           /\ InImage(syms.procedures[NameMain], MainCode, m.pc) =>
                m.pc - syms.procedures[NameMain] \in Boundaries(MainCode, 0)
           /\ m.pc = syms.procedures[NameMain] + AfterCompare =>
                m.r[RegA] = Truth
           /\ m.st = "halt" => m.out = <<Truth, 33>> )
  /\ ((src.kind = "compare" /\ phase = "running") ~> m.st = "halt")

\* 2 <= 2 has been computed: A = 1 at the CALL of PutD
C19_Witness ==
  /\ src.kind = "compare" /\ ComparedBy = "LessEqual"
  /\ src.p1 = 2 /\ src.p2 = 2
  /\ phase = "running"
  /\ m.pc = syms.procedures[NameMain] + AfterCompare
  /\ m.r[RegA] = 1

(***************************************************************************)
(* C20.  Addition and subtraction of a byte and a word.                    *)
(***************************************************************************)
\* the operator of ProgArith
ArithOp == src.program.procedures[1].body[1].value.k

\* l op r modulo 65536, the byte operand zero-extended
ArithResult ==
  IF ArithOp = "Add" THEN (src.p1 + src.p2) % 65536
  ELSE (src.p1 - src.p2) % 65536

\* C20: Add and Subtract with one byte and one word operand, in either
\* order, leave the 16-bit result (the byte zero-extended) in HL and report
\* a word result: a = l op r stores the result with LD (nn),HL, the store
\* of a word (the instruction before the RETURN's RET and the procedure's
\* closing RET), and HL holds (l op r) mod 65536 when the program has halted.
C20_MixedWidth ==
  /\ (src.kind = "mixed" /\ phase \in {"built", "running"}) =>
        MainCode[Len(MainCode) - 4] = \h22
  /\ (src.kind = "mixed" /\ Stopped) =>
        m.st = "halt" /\ HL(m) = ArithResult

(***************************************************************************)
(* C21.  Patches.                                                          *)
(***************************************************************************)
\* the opcodes of the jumps and calls with a 16-bit operand: JP, JP Z,
\* JP NZ, JP C, JP NC, CALL
BranchOpcodes == {\hC3, \hCA, \hC2, \hDA, \hD2, \hCD}

\* C21: every patch_word call of generate overwrites the two operand bytes
\* of a jump or call emitted earlier with operand 0x0000, still 00 00 when
\* patched, no placeholder is patched twice, and the value written is the
\* current address pc (the address of the entry procedure for the patch of
\* the entry CALL).
C21_PatchesPlaceholders ==
  phase \in {"built", "running"} =>
    \A k \in DOMAIN syms.patches :
       /\ syms.patches[k].offset > 0
       /\ syms.patches[k].before \in BranchOpcodes
       /\ syms.patches[k].old = <<0, 0>>
       /\ syms.patches[k].value = syms.patches[k].pc
            \/ syms.patches[k].before = \hCD
       /\ \A j \in DOMAIN syms.patches :
            j # k => syms.patches[j].offset # syms.patches[k].offset

(***************************************************************************)
(* C22.  IF.                                                               *)
(***************************************************************************)
\* what the statements write when exactly one branch of every IF reached
\* is executed, the then-block for a condition other than 0
RECURSIVE Written(_)
Written(stmts) ==
  IF stmts = <<>> THEN <<>>
  ELSE (CASE Head(stmts).k = "If" ->
               IF Head(stmts).condition.n # 0
               THEN Written(Head(stmts).then_block)
               ELSE Written(Head(stmts).else_block)
          [] Head(stmts).k = "ProcCall" -> <<Head(stmts).args[1].n>>
          [] OTHER -> <<>>)
       \o Written(Tail(stmts))

\* the numbers of IFs without and with ELSE in the statements
RECURSIVE CountIf(_, _)
CountIf(stmts, with_else) ==
  IF stmts = <<>> THEN 0
  ELSE (IF Head(stmts).k = "If"
        THEN (IF Head(stmts).has_else = with_else THEN 1 ELSE 0)
             + CountIf(Head(stmts).then_block, with_else)
             + CountIf(Head(stmts).else_block, with_else)
        ELSE 0)
       + CountIf(Tail(stmts), with_else)

\* the patches of generate whose operand follows the opcode op
PatchesOf(op) == {k \in DOMAIN syms.patches : syms.patches[k].before = op}

\* the body of Main
MainBody == src.program.procedures[1].body

\* C22: an IF without ELSE emits one placeholder jump, the JP Z, patched to
\* the address after the then-block; an IF with ELSE emits two, the JP Z
\* patched to the first instruction of the else-block (the address after
\* the then-block's closing JP) and that JP patched to the address after
\* the else-block; also for nested IFs, so that exactly one branch of
\* every IF runs: the program writes what the taken branches write, then
\* '!', and halts.
C22_IfBranches ==
  /\ []( (src.kind = "if" /\ phase \in {"built", "running"}) =>
           /\ Cardinality(PatchesOf(\hCA))
                = CountIf(MainBody, FALSE) + CountIf(MainBody, TRUE)
           /\ Cardinality(PatchesOf(\hC3)) = CountIf(MainBody, TRUE)
           /\ \A k \in PatchesOf(\hCA) \cup PatchesOf(\hC3) :
                /\ syms.patches[k].old = <<0, 0>>
                /\ syms.patches[k].value = syms.patches[k].pc
                /\ CodeWord(syms.code_start + syms.patches[k].offset)
                     = syms.patches[k].value
           /\ \A k \in PatchesOf(\hC3) :
                \E j \in PatchesOf(\hCA) :
                   syms.patches[j].value
                     = syms.code_start + syms.patches[k].offset + 2
           /\ phase = "running" => m.st \in {"run", "halt"}
           /\ (phase = "running" /\ m.st = "halt") =>
                m.out = Written(MainBody) )
  /\ ((src.kind = "if" /\ phase = "running") ~> m.st = "halt")

\* IF 1 THEN IF 0 THEN C FI A ELSE B IF 0 THEN E ELSE F FI FI has written
\* 'A' and '!' and halted
C22_Witness ==
  /\ src.kind = "if" /\ src.p1 = 1 /\ src.p2 = 0
  /\ CountIf(MainBody, FALSE) = 1 /\ CountIf(MainBody, TRUE) = 2
  /\ Len(MainBody[1].then_block) = 2
  /\ phase = "running" /\ m.st = "halt"
  /\ m.out = <<65, 33>>

(***************************************************************************)
(* C23.  The left operand of a byte operator.                              *)
(***************************************************************************)
\* the expression PutD is called with in the first statement of Main
PutArg == MainBody[1].args[1]

\* the value of x op (y + z) for the literals of ProgNested
NestedValue ==
  LET x == PutArg.l.n
      r == (PutArg.r.l.n + PutArg.r.r.n) % 256
  IN  CASE PutArg.k = "Add" -> (x + r) % 256
        [] PutArg.k = "Subtract" -> (x - r) % 256
        [] OTHER -> IF x = r THEN 1 ELSE 0

\* C23: the value of the left operand of a byte operator, computed before
\* the right operand, is the value combined with the right operand's, also
\* when the right operand is itself a binary operation:
\* PutD(x op (y + 3)) writes the value of x op (y + 3), e.g. 6 for
\* 1 + (2 + 3).
C23_LeftOperandKept ==
  (src.kind = "nested" /\ Stopped) =>
     m.st = "halt" /\ m.out = <<NestedValue, 33>>

(***************************************************************************)
(* C24.  OR.                                                               *)
(***************************************************************************)
\* the bitwise or of the bytes x and y
RECURSIVE ByteOr(_, _, _)
ByteOr(x, y, bits) ==
  IF bits = 0 THEN 0
  ELSE (IF x % 2 = 1 \/ y % 2 = 1 THEN 1 ELSE 0)
       + 2 * ByteOr(x \div 2, y \div 2, bits - 1)

\* C24: for every pair of byte operands x and y the code for x OR y leaves
\* the byte-wise or of x and y in A: PutD(x OR y) writes it.
C24_OrOfBytes ==
  (src.kind = "or" /\ Stopped) =>
     m.st = "halt" /\ m.out = <<ByteOr(src.p1, src.p2, 8), 33>>

(***************************************************************************)
(* C25.  Array elements.                                                   *)
(***************************************************************************)
\* the address a[index] of ProgStore: a is the first global, at 0x2000
StoredAt ==
  \h2000 + src.p1 + (IF MainBody[2].index.k = "Add" THEN 1 ELSE 0)

\* C25: for a BYTE ARRAY a, a byte index i and a byte value v the code for
\* a[i] = v stores v at the base address plus i and changes no other byte
\* of the array, and the expression a[i] then yields v, also when the index
\* is a binary operation such as i + 1: i = x, a[index] = v, PutD(a[index])
\* leaves v at a[index], the rest of a untouched, and writes v.
C25_ArrayStore ==
  (src.kind = "store" /\ Stopped) =>
     /\ m.st = "halt"
     /\ Read(m, src.org, binary, StoredAt) = src.p2
     /\ \A k \in 0..3 :
          \h2000 + k # StoredAt => Read(m, src.org, binary, \h2000 + k) = 0
     /\ m.out = <<src.p2, 33>>

(***************************************************************************)
(* C26.  A bare RETURN.                                                    *)
(***************************************************************************)
\* the positions of the RETURN tokens of the source text that are followed
\* immediately by Newline, Eof, OD or FI
BareReturns ==
  {pos \in 0..(Len(src.tokens) - 2) :
     /\ src.tokens[pos + 1].t = "Return"
     /\ src.tokens[pos + 2].t \in {"Newline", "Eof", "Od", "Fi"}}

\* C26: when the token right after RETURN is Newline, Eof, OD or FI,
\* parse_statement at the RETURN produces Return(None), whatever follows
\* the newline: a PROC or a type keyword there is not parsed as the return
\* expression.
C26_BareReturn ==
  (src.kind = "parse" /\ phase # "text") =>
    \A pos \in BareReturns :
       /\ parse_statement(src.tokens, pos).err = ""
       /\ parse_statement(src.tokens, pos).val = <<Return>>

(***************************************************************************)
(* C27.  pc and the code length.                                           *)
(***************************************************************************)
\* C27: pc = origin + code.len() as integers in every state of generate,
\* also when origin + code.len() passes 0xFFFF.  pc only grows with the
\* code, so it is the state generate ends in that is looked at.  With
\* --org 0xFF90 the program code starts at 0xFFFD.
C27_PcIsOriginPlusLength ==
  phase \in {"built", "running"} =>
     syms.pc = syms.code_start + Len(syms.program_code)

(***************************************************************************)
(* C28.  Assignment to a global.                                           *)
(***************************************************************************)
\* the 16-bit value stored at address a, low byte first
ReadWord(a) ==
  Read(m, src.org, binary, a) + 256 * Read(m, src.org, binary, a + 1)

\* C28: an assignment to a BYTE global writes that one byte and leaves the
\* storage of the other variables unchanged, whatever the width of the
\* assigned expression, and an assignment of a byte-width value to a CARD
\* variable stores the zero-extended value: after i = 5, a = v, x = c with
\* BYTE a at 0x2000, BYTE i at 0x2001 and CARD x at 0x2002, a holds the low
\* byte of v, i still holds 5 and x holds c.
C28_AssignmentWidth ==
  (src.kind = "assign" /\ Stopped) =>
     /\ m.st = "halt"
     /\ Read(m, src.org, binary, syms.globals[Name_a].address) = src.p1 % 256
     /\ Read(m, src.org, binary, syms.globals[Name_i].address) = 5
     /\ ReadWord(syms.globals[Name_x].address) = src.p2

(***************************************************************************)
(* C29.  Parameters and locals.                                            *)
(***************************************************************************)
\* the statement of Helper in ProgParams
HelperStatement == src.program.procedures[1].body[1]

C30_ParseTerminates ==
  /\ parse(src.tokens).err \in {"", "ParserError", "UnexpectedToken"}
  /\ parse(src.tokens).pos <= Len(src.tokens)
  /\ phase = "failed" => syms.err = parse(src.tokens).err /\ syms.err # ""
  /\ phase = "source" => /\ parse(src.tokens).err = ""
                         /\ src.program = parse(src.tokens).val

\* the long text has been parsed: two globals, Main, and Helper with two
\* parameters, one local and the IF, FOR, pointer and RETURN statements
C30_Parsed ==
  /\ phase = "source"
  /\ src.tokens = LongText \o <<Tok("Eof")>>
  /\ Len(src.program.globals) = 2
  /\ Len(src.program.procedures) = 2
  /\ Len(src.program.procedures[2].params) = 2
  /\ Len(src.program.procedures[2].locals) = 1
  /\ Len(src.program.procedures[2].body) = 4
  /\ src.program.procedures[2].body[1].k = "If"
  /\ Len(src.program.procedures[2].body[1].then_block[1].args) = 3
  /\ src.program.procedures[2].body[1].else_block[1].condition.k = "Or"

====
